---------------------------- MODULE Spec2Model ----------------------------
(***************************************************************************)
(* A model of the radar correlation engine (basic_pipelines/               *)
(* radar_handler.py) and of the telemetry dispatcher (basic_pipelines/     *)
(* kafka_handler.py).                                                      *)
(*                                                                         *)
(* Eight specifications share the module:                                  *)
(*   DecodeSpec  the serial frame decoder applied to 4-byte frames;        *)
(*   Spec        the radar engine: the ingestion thread and a matching     *)
(*               caller, interleaved at the granularity of the deque       *)
(*               operations (the ingestion thread never takes radar_lock); *)
(*   SerialSpec  the ingestion thread on a serial line that can fail;      *)
(*   LifecycleSpec  start_radar and stop_radar around the ingestion thread;*)
(*   KafkaSpec   the dispatcher loop, the uploads and the broker failover; *)
(*   TrackerSpec the broker and the storage tracker driven call by call;   *)
(*   LiveSpec    the loop looking for a broker, under weak fairness of the *)
(*               dispatcher thread and of the clock;                       *)
(*   ErrorLogSpec  send_error_log and the reconnect it makes.              *)
(* Python's None is the empty sequence, a present value x is <<x>>.        *)
(***************************************************************************)
EXTENDS Integers, Sequences, FiniteSets, TLC

VARIABLES
    \* ---- decoder (DecodeSpec)
    frame,                  \* the 4 bytes handed to _process_speed_data
    decoded,                \* its result, None before the call
    dpc,                    \* "ready" | "done"
    \* ---- radar engine (Spec)
    now,                    \* time.time() of the radar host, in seconds
    ser,                    \* TRUE iff self.ser holds an open serial handle
    count_radar,            \* self.count_radar
    previous_reading,       \* local previous_reading of _radar_read_loop
    rank1_radar_speeds,     \* deque of <<timestamp, speed>>
    rank2_radar_speeds,
    rank3_radar_speeds,
    is_calibrating,         \* self.is_calibrating: class -> BOOLEAN
    class_calibration_count,\* self.class_calibration_count: class -> Nat
    radar_lock,             \* "free" or the thread that holds self.radar_lock
    ipc,                    \* position of the ingestion thread
    radar_running,          \* self.radar_running
    cpc,                    \* position of the caller of start_radar and
                            \* stop_radar: "idle", or "join" inside stop_radar
    h_alive,                \* ingestion threads started and not yet ended
    i_speed,                \* its local speed
    i_time,                 \* its local current_time
    i_rank,                 \* the deque passed to _add_speed_to_rank (1 or 2)
    i_oldest,               \* local oldest_speed of _process_rank2_to_rank3
    mpc,                    \* position of the caller of get_radar_data
    m_ai, m_thr, m_cls,     \* its arguments ai_speed, threshold, obj_class
    m_calib,                \* TRUE iff it took the calibration branch
    m_rank,                 \* the rank whose deque it is iterating
    m_mut,                  \* that deque was mutated since the iteration began
    m_best,                 \* local best_match
    m_res,                  \* the outcome of the last call
    \* ---- history of the current call, read only by the properties
    n_readings,             \* non-zero readings counted so far
    h_poll,                 \* what the last get_speed call met on the line
    h_ins,                  \* rank 2 as the current reading left it, if it
                            \* then held two entries or more
    h_exam,                 \* the deques as the call read them, in order
    h_matches               \* class -> matches returned in calibration mode

VARIABLES
    \* ---- telemetry dispatcher (KafkaSpec): the fields of KafkaHandler
    kafka_pipeline,         \* None, or <<b>>: a producer connected to broker b
    current_broker_index,   \* self.current_broker_index
    last_broker_failure,    \* self.last_broker_failure
    broker_health,          \* self.broker_health: broker -> BOOLEAN
    s3_clients,             \* the names that have a client in self.s3_clients
    current_s3_index,       \* self.current_s3_index
    last_s3_failure,        \* self.last_s3_failure
    s3_health,              \* self.s3_health: name -> BOOLEAN
    \* ---- its environment
    ktime,                  \* time.time() of the dispatcher host, in seconds
    broker_up,              \* broker -> BOOLEAN: the broker accepts connections
    events_queue,           \* the events queue, a sequence of messages
    analytics_queue,        \* the analytics queue
    \* ---- run_kafka_loop and the calls it makes
    kpc,                    \* position of the dispatcher thread, or of the
                            \* caller of send_error_log between two passes
    k_ret,                  \* who called _create_kafka_producer
    k_broker,               \* local broker of _create_kafka_producer
    k_msg,                  \* local message of process_events_queue
    k_img, k_snap, k_vid,   \* its image_s3_url, snap_shot_s3_url, video_s3_url
    messages_processed,     \* local messages_processed of the loop
    consecutive_empty_cycles,
    sleep_time,             \* the argument of the last time.sleep, in tenths
                            \* of a second
    \* ---- history, read only by the properties
    h_sent,                 \* the outcomes of the sends of the current message
    h_pub,                  \* the message handed to the last send
    h_ok,                   \* what the last process_*_queue call returned
    h_deq,                  \* messages taken from the queues in this pass
    h_probed,               \* brokers probed by the last _get_next_healthy_broker
    h_failed,               \* the broker of the producer that
                            \* _handle_broker_failure has just closed
    h_s3call,               \* the last _get_next_healthy_s3 call
    h_up,                   \* the last upload_to_s3 call
    \* ---- send_error_log
    last_error_time,        \* self.last_error_time
    g_time,                 \* local current_time of send_error_log
    h_errlog                \* the error logs handed to a producer so far: how
                            \* many, when the last one was, and how the last
                            \* call ended

decodeVars == <<frame, decoded, dpc>>
brokerVars == <<current_broker_index, last_broker_failure, broker_health>>
s3Vars == <<s3_clients, current_s3_index, last_s3_failure, s3_health>>
envVars == <<ktime, broker_up>>
queueVars == <<events_queue, analytics_queue>>
msgVars == <<k_msg, k_img, k_snap, k_vid>>
loopVars == <<messages_processed, consecutive_empty_cycles, sleep_time>>
errorVars == <<last_error_time, g_time, h_errlog>>
kafkaVars == <<kafka_pipeline, brokerVars, s3Vars, envVars, queueVars, kpc,
               k_ret, k_broker, msgVars, loopVars, h_sent, h_pub, h_ok,
               h_deq, h_probed, h_failed, h_s3call, h_up, errorVars>>
rankVars == <<rank1_radar_speeds, rank2_radar_speeds, rank3_radar_speeds>>
ingestVars == <<ser, count_radar, previous_reading, ipc, i_speed, i_time,
                i_rank, i_oldest, n_readings, h_ins, h_poll>>
calibVars == <<is_calibrating, class_calibration_count>>
matchVars == <<radar_lock, mpc, m_ai, m_thr, m_cls, m_calib, m_rank, m_best,
               m_res, h_exam, h_matches>>
lifeVars == <<radar_running, cpc, h_alive>>
radarVars == <<now, rankVars, ingestVars, calibVars, matchVars, m_mut,
               lifeVars>>

\* what the ingestion thread and the matching caller never write
notRadar == <<decodeVars, kafkaVars, lifeVars>>

None == <<>>
Some(x) == <<x>>

Abs(x) == IF x < 0 THEN -x ELSE x

(***************************************************************************)
(* SerialFrameDecoder: RadarHandler._process_speed_data                    *)
(***************************************************************************)
Byte == 0..255

\* the dictionary returned for a recognised frame
Reading(speed, direction, type) ==
    [speed |-> speed, direction |-> direction, type |-> type]

\* a primary range that starts at 0x00, as the leading range does
PrimaryTargetRangeFromZero == 0..250

\* the valid magnitude range of a primary (approaching) target: 0x0F..0xFA
PrimaryTargetRange == 15..250

\* the valid magnitude range of a leading (receding) target: 0x00..0xFA
LeadingTargetRange == 0..250

\* the body of the for loop at offset i (0-based, as in the source); the
\* elif is not tried when the first pattern matches with a magnitude out
\* of range
RECURSIVE ScanFrom(_, _)
ScanFrom(data, i) ==
    IF i >= Len(data) - 3 THEN None
    ELSE IF data[i+1] = 252 /\ data[i+2] = 250 /\ data[i+4] = 0
         THEN IF data[i+3] \in PrimaryTargetRange
              THEN Some(Reading(data[i+3], "Approaching", "Primary Target"))
              ELSE ScanFrom(data, i + 1)
         ELSE IF data[i+1] = 251 /\ data[i+2] = 253 /\ data[i+4] = 0
              THEN IF data[i+3] \in LeadingTargetRange
                   THEN Some(Reading(data[i+3], "Receding", "Leading Target"))
                   ELSE ScanFrom(data, i + 1)
              ELSE ScanFrom(data, i + 1)

ProcessSpeedData(data) ==
    IF Len(data) = 0 THEN None ELSE ScanFrom(data, 0)

(***************************************************************************)
(* RadarCorrelationEngine: parameters of init_radar and of the callers     *)
(***************************************************************************)
\* max_age of init_radar (its default), in seconds
max_age == 10

\* max_diff_rais of init_radar (its default)
max_diff_rais == 15

\* calibration_required of init_radar (its default)
calibration_required == 2

\* the margin of get_radar_data: min_speed = threshold - 5
SpeedMargin == 5

\* the clock advances by TickSeconds and stops at MaxTime
TickSeconds == 6
MaxTime == 12

\* the radar reports at most MaxReadings non-zero readings
MaxReadings == 3

\* magnitudes the radar reports in the model
ApproachMagnitudes == {35, 55}
RecedeMagnitudes == {0}

\* the 4-byte frames a poll can read: primary targets, leading targets, a
\* primary frame with a magnitude below 0x0F and a frame without marker
PollFrames ==
    {<<252, 250, m, 0>> : m \in ApproachMagnitudes}
    \cup {<<251, 253, m, 0>> : m \in RecedeMagnitudes}
    \cup {<<252, 250, 14, 0>>, <<0, 0, 0, 0>>}

\* classes the caller registered in is_calibrating / class_calibration_count
RegisteredClasses == {"car"}

\* classes a caller may pass to get_radar_data
ObjClasses == {"car", "bike"}

\* arguments a caller may pass to get_radar_data
AiSpeeds == {38, 52}
Thresholds == {35, 40}

(***************************************************************************)
(* deques of <<timestamp, speed>>                                          *)
(***************************************************************************)
Timestamp(e) == e[1]
SpeedOf(e) == e[2]

Contains(dq, x) == \E i \in 1..Len(dq) : dq[i] = x

\* a removal that takes every occurrence of x
RemoveEvery(dq, x) == SelectSeq(dq, LAMBDA e : e /= x)

\* deque.remove(x): the first occurrence goes
RemoveFirst(dq, x) ==
    LET i == CHOOSE k \in 1..Len(dq) :
                 dq[k] = x /\ \A j \in 1..(k-1) : dq[j] /= x
    IN  SubSeq(dq, 1, i - 1) \o SubSeq(dq, i + 1, Len(dq))

\* min(seq, key=...): the first element whose key is minimal; keys[i] is
\* the key of s[i]
FirstMin(s, keys) ==
    LET i == CHOOSE k \in 1..Len(s) :
                 /\ \A j \in 1..Len(s) : keys[k] <= keys[j]
                 /\ \A j \in 1..(k-1) : keys[j] > keys[k]
    IN  s[i]

RankOf(k) ==
    CASE k = 1 -> rank1_radar_speeds
      [] k = 2 -> rank2_radar_speeds
      [] k = 3 -> rank3_radar_speeds

\* deque k becomes dq, by the thread `who`; an iteration of the matching
\* caller over that deque is invalidated by a mutation of the ingestion thread
SetRank(k, dq, who) ==
    /\ rank1_radar_speeds' = IF k = 1 THEN dq ELSE rank1_radar_speeds
    /\ rank2_radar_speeds' = IF k = 2 THEN dq ELSE rank2_radar_speeds
    /\ rank3_radar_speeds' = IF k = 3 THEN dq ELSE rank3_radar_speeds
    /\ m_mut' = IF who = "ingest"
                THEN m_mut \/ (mpc = "m_filter" /\ m_rank = k)
                ELSE FALSE

(***************************************************************************)
(* the ingestion thread: RadarHandler._radar_read_loop                     *)
(***************************************************************************)
\* what one call of get_speed can meet on the serial line
PollOutcomes ==
    {[kind |-> k, frame |-> <<>>] : k \in {"reopen_fail", "read_error", "short"}}
    \cup {[kind |-> "frame", frame |-> f] : f \in PollFrames}

\* a get_speed that keeps the handle whatever happens
GetSpeedKeepsHandle(o) ==
    [ser |-> TRUE,
     data |-> IF o.kind = "frame" THEN ProcessSpeedData(o.frame) ELSE None]

\* get_speed: the handle it leaves and the reading it returns
GetSpeed(o) ==
    CASE o.kind = "reopen_fail" -> [ser |-> FALSE, data |-> None]
      [] o.kind = "read_error"  -> [ser |-> FALSE, data |-> None]
      [] o.kind = "short"       -> [ser |-> TRUE, data |-> None]
      [] o.kind = "frame"       -> [ser |-> TRUE, data |-> ProcessSpeedData(o.frame)]

\* the counter after the jump test of line 176
CountAfterJump(speed) ==
    IF previous_reading /= None
       /\ Abs(speed - previous_reading[1]) > max_diff_rais
    THEN 0
    ELSE count_radar

\* the deque a reading with this count is added to; 0: none
RouteOf(count) ==
    IF count = 1 THEN 1
    ELSE IF count % 2 = 0 THEN 2
    ELSE 0

\* the loop-level state of the ingestion thread stays
LoopKeeps ==
    UNCHANGED <<ser, count_radar, previous_reading, n_readings, h_poll>>

\* the locals of the current reading stay
LocalsKeep == UNCHANGED <<i_speed, i_time, i_rank, i_oldest, h_ins>>

\* back to the head of the while loop: the locals of the reading die
IngestIdle ==
    /\ ipc' = "loop"
    /\ i_speed' = 0
    /\ i_time' = 0
    /\ i_rank' = 0
    /\ i_oldest' = None
    /\ h_ins' = None

\* lines 176-198: the counting of a reading and its routing
CountReading(speed) ==
    LET c0 == CountAfterJump(speed) IN
    /\ previous_reading' = Some(speed)
    /\ IF speed /= 0
       THEN /\ n_readings < MaxReadings
            /\ n_readings' = n_readings + 1
            /\ count_radar' = c0 + 1
            /\ IF RouteOf(c0 + 1) = 0
               THEN IngestIdle
               ELSE /\ ipc' = "c_truth"
                    /\ i_speed' = speed
                    /\ i_time' = now
                    /\ i_rank' = RouteOf(c0 + 1)
                    /\ i_oldest' = None
                    /\ h_ins' = None
       ELSE /\ count_radar' = 0
            /\ IngestIdle
            /\ UNCHANGED n_readings

\* lines 164-198: one poll of the radar, with one of `outcomes` on the line
PollWith(outcomes) ==
    /\ ipc = "loop"
    /\ radar_running
    /\ \E o \in outcomes :
         /\ (o.kind = "reopen_fail") => ~ser
         /\ ser' = GetSpeed(o).ser
         /\ h_poll' = o.kind
         /\ IF GetSpeed(o).data = None
            THEN /\ IngestIdle
                 /\ UNCHANGED <<count_radar, previous_reading, n_readings>>
            ELSE CountReading(GetSpeed(o).data[1].speed)
    /\ UNCHANGED <<notRadar, now, rankVars, calibVars, matchVars, m_mut>>

\* a poll on a serial line that delivers 4 bytes
Poll == PollWith({o \in PollOutcomes : o.kind = "frame"})

\* the IndexError of an empty deque, caught at line 199: the reading is
\* dropped and the loop continues
IngestIndexError ==
    /\ IngestIdle
    /\ UNCHANGED <<rankVars, m_mut>>

\* line 291, `while speed_deque`
CleanupTruth ==
    /\ ipc = "c_truth"
    /\ ipc' = IF RankOf(i_rank) = <<>> THEN "append" ELSE "c_head"
    /\ LoopKeeps /\ LocalsKeep
    /\ UNCHANGED <<notRadar, now, rankVars, calibVars, matchVars, m_mut>>

\* line 291, `(current_time - speed_deque[0][0]) >= self.max_age`
CleanupHead ==
    /\ ipc = "c_head"
    /\ IF RankOf(i_rank) = <<>>
       THEN IngestIndexError
       ELSE /\ ipc' = IF i_time - Timestamp(Head(RankOf(i_rank))) >= max_age
                      THEN "c_pop" ELSE "append"
            /\ LocalsKeep
            /\ UNCHANGED <<rankVars, m_mut>>
    /\ LoopKeeps
    /\ UNCHANGED <<notRadar, now, calibVars, matchVars>>

\* line 292, speed_deque.popleft()
CleanupPop ==
    /\ ipc = "c_pop"
    /\ IF RankOf(i_rank) = <<>>
       THEN IngestIndexError
       ELSE /\ SetRank(i_rank, Tail(RankOf(i_rank)), "ingest")
            /\ ipc' = "c_truth"
            /\ LocalsKeep
    /\ LoopKeeps
    /\ UNCHANGED <<notRadar, now, calibVars, matchVars>>

\* line 304, rank_deque.append((current_time, speed))
AddSpeedToRank ==
    /\ ipc = "append"
    /\ SetRank(i_rank, Append(RankOf(i_rank), <<i_time, i_speed>>), "ingest")
    /\ IF i_rank = 1
       THEN IngestIdle
       ELSE /\ ipc' = "p_len"
            /\ h_ins' = IF Len(rank2_radar_speeds) >= 1
                        THEN Some(Append(rank2_radar_speeds, <<i_time, i_speed>>))
                        ELSE None
            /\ UNCHANGED <<i_speed, i_time, i_rank, i_oldest>>
    /\ LoopKeeps
    /\ UNCHANGED <<notRadar, now, calibVars, matchVars>>

\* a promotion that waits for a third entry in rank 2
PromoteTestAtThree ==
    /\ ipc = "p_len"
    /\ IF Len(rank2_radar_speeds) >= 3
       THEN /\ ipc' = "p_pop"
            /\ LocalsKeep
       ELSE IngestIdle
    /\ LoopKeeps
    /\ UNCHANGED <<notRadar, now, rankVars, calibVars, matchVars, m_mut>>

\* line 310, `if len(self.rank2_radar_speeds) >= 2`
PromoteTest ==
    /\ ipc = "p_len"
    /\ IF Len(rank2_radar_speeds) >= 2
       THEN /\ ipc' = "p_pop"
            /\ LocalsKeep
       ELSE IngestIdle
    /\ LoopKeeps
    /\ UNCHANGED <<notRadar, now, rankVars, calibVars, matchVars, m_mut>>

\* line 312, oldest_speed = self.rank2_radar_speeds.popleft()
PromotePop ==
    /\ ipc = "p_pop"
    /\ IF rank2_radar_speeds = <<>>
       THEN IngestIndexError
       ELSE /\ SetRank(2, Tail(rank2_radar_speeds), "ingest")
            /\ i_oldest' = Some(Head(rank2_radar_speeds))
            /\ ipc' = "p_app"
            /\ UNCHANGED <<i_speed, i_time, i_rank, h_ins>>
    /\ LoopKeeps
    /\ UNCHANGED <<notRadar, now, calibVars, matchVars>>

\* line 313, self.rank3_radar_speeds.append(oldest_speed)
PromoteAppend ==
    /\ ipc = "p_app"
    /\ SetRank(3, Append(rank3_radar_speeds, i_oldest[1]), "ingest")
    /\ ipc' = "p_len3"
    /\ LocalsKeep
    /\ LoopKeeps
    /\ UNCHANGED <<notRadar, now, calibVars, matchVars>>

\* line 316, `if len(self.rank3_radar_speeds) > 1`
TrimTest ==
    /\ ipc = "p_len3"
    /\ IF Len(rank3_radar_speeds) > 1
       THEN /\ ipc' = "p_trim"
            /\ LocalsKeep
       ELSE IngestIdle
    /\ LoopKeeps
    /\ UNCHANGED <<notRadar, now, rankVars, calibVars, matchVars, m_mut>>

\* line 317, self.rank3_radar_speeds.popleft()
TrimPop ==
    /\ ipc = "p_trim"
    /\ IF rank3_radar_speeds = <<>>
       THEN IngestIndexError
       ELSE /\ SetRank(3, Tail(rank3_radar_speeds), "ingest")
            /\ IngestIdle
    /\ LoopKeeps
    /\ UNCHANGED <<notRadar, now, calibVars, matchVars>>

\* time passes on the radar host
Tick ==
    /\ now + TickSeconds <= MaxTime
    /\ now' = now + TickSeconds
    /\ UNCHANGED <<notRadar, rankVars, ingestVars, calibVars, matchVars, m_mut>>

(***************************************************************************)
(* the matching caller: RadarHandler.get_radar_data                        *)
(***************************************************************************)
MinSpeed(threshold) == threshold - SpeedMargin

\* a filter that keeps the entries at min_speed too
ValidSpeedsAtLeast(radar_speeds, min_speed) ==
    SelectSeq(radar_speeds, LAMBDA e : SpeedOf(e) >= min_speed)

\* [(ts, speed) for ts, speed in radar_speeds if speed > min_speed]
ValidSpeeds(radar_speeds, min_speed) ==
    SelectSeq(radar_speeds, LAMBDA e : SpeedOf(e) > min_speed)

\* a selection by timestamp, whatever ai_speed is
OldestMatch(valid_speeds, ai_speed) ==
    FirstMin(valid_speeds,
             [i \in 1..Len(valid_speeds) |-> Timestamp(valid_speeds[i])])

\* line 243: min(valid_speeds, key=lambda x: abs(x[1] - ai_speed))
NearestMatch(valid_speeds, ai_speed) ==
    FirstMin(valid_speeds,
             [i \in 1..Len(valid_speeds) |->
                 Abs(SpeedOf(valid_speeds[i]) - ai_speed)])

\* a selection of the latest entry instead of the earliest
LatestMatch(valid_speeds) ==
    FirstMin(valid_speeds,
             [i \in 1..Len(valid_speeds) |-> 0 - Timestamp(valid_speeds[i])])

\* line 273: min(valid_speeds, key=lambda x: x[0])
EarliestMatch(valid_speeds) ==
    FirstMin(valid_speeds,
             [i \in 1..Len(valid_speeds) |-> Timestamp(valid_speeds[i])])

\* line 246: the calibration count still moves
StillCounting(count) == count <= calibration_required

Outcome(kind, val) == [kind |-> kind, val |-> val]

\* the call ends: the lock is released, the arguments and the locals die
MatchEnds(kind, val) ==
    /\ m_res' = Outcome(kind, val)
    /\ mpc' = "idle"
    /\ radar_lock' = "free"
    /\ m_ai' = 0
    /\ m_thr' = 0
    /\ m_cls' = "car"
    /\ m_calib' = FALSE
    /\ m_rank' = 0
    /\ m_best' = None
    /\ h_exam' = <<>>

\* the call goes on to position pc, iterating deque k, with best_match best
MatchGoes(pc, calib, k, best, exam) ==
    /\ mpc' = pc
    /\ m_calib' = calib
    /\ m_rank' = k
    /\ m_best' = best
    /\ h_exam' = exam
    /\ UNCHANGED <<radar_lock, m_ai, m_thr, m_cls, m_res>>

\* a caller enters get_radar_data and takes radar_lock (line 217)
MatchCall ==
    /\ mpc = "idle"
    /\ radar_lock = "free"
    /\ \E ai \in AiSpeeds, th \in Thresholds, cls \in ObjClasses :
         /\ m_ai' = ai
         /\ m_thr' = th
         /\ m_cls' = cls
    /\ radar_lock' = "match"
    /\ mpc' = "m_any"
    /\ m_res' = Outcome("pending", 0)
    /\ UNCHANGED <<notRadar, now, rankVars, ingestVars, calibVars, m_mut, m_calib,
                   m_rank, m_best, h_exam, h_matches>>

\* lines 219-227: the early exit and the lookup of the class
MatchAny ==
    /\ mpc = "m_any"
    /\ IF rank1_radar_speeds = <<>> /\ rank2_radar_speeds = <<>>
          /\ rank3_radar_speeds = <<>>
       THEN MatchEnds("none", 0)
       ELSE IF m_cls \notin DOMAIN is_calibrating
       THEN MatchEnds("raise", 0)
       ELSE MatchGoes("m_iter", is_calibrating[m_cls], 1, None, <<>>)
    /\ UNCHANGED <<notRadar, now, rankVars, ingestVars, calibVars, m_mut, h_matches>>

\* lines 237 and 269: the list comprehension starts iterating deque m_rank
MatchIter ==
    /\ mpc = "m_iter"
    /\ MatchGoes("m_filter", m_calib, m_rank, m_best, h_exam)
    /\ m_mut' = FALSE
    /\ UNCHANGED <<notRadar, now, rankVars, ingestVars, calibVars, h_matches>>

\* lines 246-250: the count of the class moves, or its calibration ends
CountCalibration ==
    IF StillCounting(class_calibration_count[m_cls])
    THEN /\ class_calibration_count' =
              [class_calibration_count EXCEPT ![m_cls] = @ + 1]
         /\ UNCHANGED is_calibrating
    ELSE /\ is_calibrating' = [is_calibrating EXCEPT ![m_cls] = FALSE]
         /\ UNCHANGED class_calibration_count

\* lines 237-250: valid_speeds of rank 1, the nearest match and the count
FilterCalibration(valid, exam) ==
    IF valid = <<>>
    THEN /\ MatchEnds("none", 0)
         /\ UNCHANGED calibVars
    ELSE /\ MatchGoes("m_remove", m_calib, m_rank,
                      Some(NearestMatch(valid, m_ai)), exam)
         /\ CountCalibration

\* lines 267-281: valid_speeds of deque m_rank, the earliest match or the
\* next deque
FilterRanks(valid, exam) ==
    /\ IF valid /= <<>>
       THEN MatchGoes("m_remove", m_calib, m_rank,
                      Some(EarliestMatch(valid)), exam)
       ELSE IF m_rank < 3
       THEN MatchGoes("m_iter", m_calib, m_rank + 1, None, exam)
       ELSE MatchEnds("none", 0)
    /\ UNCHANGED calibVars

\* what the call has read so far, with the deque it has just iterated
Examined == Append(h_exam, [rank |-> m_rank, seen |-> RankOf(m_rank)])

\* the list comprehension ends: RuntimeError if the deque was mutated while
\* it was iterated, the filtered list otherwise
MatchFilter ==
    /\ mpc = "m_filter"
    /\ IF m_mut
       THEN /\ MatchEnds("raise", 0)
            /\ UNCHANGED calibVars
       ELSE IF m_calib
       THEN FilterCalibration(ValidSpeeds(RankOf(m_rank), MinSpeed(m_thr)),
                              Examined)
       ELSE FilterRanks(ValidSpeeds(RankOf(m_rank), MinSpeed(m_thr)), Examined)
    /\ m_mut' = FALSE
    /\ UNCHANGED <<notRadar, now, rankVars, ingestVars, h_matches>>

\* lines 253 and 276: radar_speeds.remove(best_match), ValueError if the
\* entry is gone; then the speed is returned
MatchRemove ==
    /\ mpc = "m_remove"
    /\ IF Contains(RankOf(m_rank), m_best[1])
       THEN /\ SetRank(m_rank, RemoveFirst(RankOf(m_rank), m_best[1]), "match")
            /\ MatchEnds("speed", SpeedOf(m_best[1]))
            /\ h_matches' = IF m_calib
                            THEN [h_matches EXCEPT ![m_cls] = @ + 1]
                            ELSE h_matches
       ELSE /\ MatchEnds("raise", 0)
            /\ m_mut' = FALSE
            /\ UNCHANGED <<rankVars, h_matches>>
    /\ UNCHANGED <<notRadar, now, ingestVars, calibVars>>

(***************************************************************************)
(* TelemetryDispatcher: KafkaHandler                                       *)
(* The clock counts seconds; the arguments of time.sleep are recorded in   *)
(* tenths of a second, so that 0.1 s is 1.                                 *)
(***************************************************************************)
\* what is outside the handler
notHandler == <<decodeVars, radarVars>>

\* what the dispatcher never touches
notKafka == <<notHandler, errorVars>>

\* self.brokers: primary_broker, then secondary_broker
Brokers == <<"broker1", "broker2">>

BrokerSet == {Brokers[i] : i \in 1..Len(Brokers)}

\* the keys of self.s3_configs, in insertion order
S3Names == <<"primary", "secondary">>

S3NameSet == {S3Names[i] : i \in 1..Len(S3Names)}

\* BUCKET_NAME and region_name of each configuration
S3Config(name) ==
    IF name = "primary"
    THEN [BUCKET_NAME |-> "bucket-a", region_name |-> "region-a"]
    ELSE [BUCKET_NAME |-> "bucket-b", region_name |-> "region-b"]

\* broker_failover_timeout and s3_failover_timeout (their defaults), seconds
broker_failover_timeout == 30
s3_failover_timeout == 30

\* upload_retries (its default)
upload_retries == 3

\* the arguments of time.sleep in run_kafka_loop: 10 s, 5 s, 0.1 s, and the
\* step and the cap of the backoff
NoBrokerSleepSeconds == 10
ConnectedSleepSeconds == 5
MinimalSleepTenths == 1
BackoffStepSeconds == 2
BackoffCapSeconds == 10

\* the dispatcher starts at KafkaStartTime, later than the failover timeouts
\* after the epoch; its clock advances by KafkaTickSeconds up to MaxKafkaTime
KafkaStartTime == 40
KafkaTickSeconds == 32
MaxKafkaTime == 75

\* error_interval (line 29), seconds
error_interval == 300

\* the error channel is followed from ErrorStartTime, later than error_interval
\* after the epoch, in steps of ErrorTickSeconds up to MaxErrorTime
ErrorStartTime == 1000
ErrorTickSeconds == 150
MaxErrorTime == 1310

\* the round-robin indices are followed up to MaxIndex
MaxIndex == 4

\* consecutive_empty_cycles is followed up to MaxEmptyCycles
MaxEmptyCycles == 5

\* the queues hold at most MaxQueue messages
MaxQueue == 1

\* the uuid4 values of the model
Uuids == {"u1"}

\* the events producers enqueue, by which of org_img, snap_shot and video
\* carry bytes. Nothing reads an event before get_nowait returns it: the queue
\* holds "event" and the payload is drawn at line 289
EventMessages ==
    { [org_img |-> TRUE, snap_shot |-> TRUE, video |-> TRUE],
      [org_img |-> TRUE, snap_shot |-> TRUE, video |-> FALSE] }

AnalyticsMessages == {"analytics"}

Min(a, b) == IF a < b THEN a ELSE b

Tenths(seconds) == 10 * seconds

\* ---- EndpointHealthTracker
\* a recovery that declares every endpoint healthy without its test
ReprobeAll(health, test) == [e \in DOMAIN health |-> TRUE]

\* a recovery that never restores an endpoint
ReprobeNever(health, test) == health

\* lines 166-168 and 133-135: every unhealthy endpoint takes the result of its
\* connectivity test
Reprobe(health, test) ==
    [e \in DOMAIN health |-> IF health[e] THEN TRUE ELSE test[e]]

\* lines 170 and 138: the healthy endpoints, in configured order
Healthy(order, health) == SelectSeq(order, LAMBDA e : health[e])

\* a selection that always takes the first healthy endpoint
FirstHealthy(healthy, index) == healthy[1]

\* lines 175 and 144: healthy[index % len(healthy)]
RoundRobin(healthy, index) == healthy[(index % Len(healthy)) + 1]

\* ---- upload_to_s3
\* lines 230-235: unique_filename
UniqueFilename(file_type, uuid) ==
    IF file_type = "video" THEN <<"clips", uuid, ".mp4">> ELSE <<uuid, ".jpg">>

\* a URL that names the bucket and the region of the primary configuration
PrimaryS3Url(name, unique_filename) ==
    <<"https://", S3Config("primary").BUCKET_NAME, ".s3.",
      S3Config("primary").region_name, ".amazonaws.com/", unique_filename>>

\* line 261: https://{bucket_name}.s3.{region}.amazonaws.com/{unique_filename}
S3Url(name, unique_filename) ==
    <<"https://", S3Config(name).BUCKET_NAME, ".s3.",
      S3Config(name).region_name, ".amazonaws.com/", unique_filename>>

\* lines 263 and 273: what a successful attempt against name returns
UploadResult(file_type, name, unique_filename) ==
    IF file_type = "video" THEN S3Url(name, unique_filename)
    ELSE unique_filename

\* a call that takes every backend for healthy
UploadStartAllHealthy ==
    [health |-> [n \in S3NameSet |-> TRUE], last |-> last_s3_failure,
     attempts |-> [n \in S3NameSet |-> 0], won |-> None]

\* the state of one upload_to_s3 call before the first backend
UploadStart ==
    [health |-> s3_health, last |-> last_s3_failure,
     attempts |-> [n \in S3NameSet |-> 0], won |-> None]

\* lines 238-284 from the i-th backend on. first_ok[n] is the attempt against
\* n that succeeds first, 0 if none of the upload_retries attempts does
RECURSIVE UploadFrom(_, _, _)
UploadFrom(i, first_ok, st) ==
    IF i > Len(S3Names) THEN st
    ELSE LET n == S3Names[i] IN
         IF ~st.health[n] \/ n \notin s3_clients
         THEN UploadFrom(i + 1, first_ok, st)
         ELSE IF first_ok[n] > 0
         THEN [st EXCEPT !.attempts[n] = first_ok[n], !.won = Some(n)]
         ELSE UploadFrom(i + 1, first_ok,
                         [st EXCEPT !.attempts[n] = upload_retries,
                                    !.health[n] = FALSE,
                                    !.last = ktime])

\* upload_to_s3(file_bytes, file_type) with the given uuid4 and attempt
\* outcomes: the reference it returns (or None) and the health it leaves
UploadToS3(file_type, uuid, first_ok) ==
    LET unique_filename == UniqueFilename(file_type, uuid)
        end == UploadFrom(1, first_ok, UploadStart)
    IN  [file_type |-> file_type,
         unique_filename |-> unique_filename,
         attempts |-> end.attempts,
         won |-> end.won,
         health |-> end.health,
         last |-> end.last,
         result |-> IF end.won = None THEN None
                    ELSE Some(UploadResult(file_type, end.won[1],
                                           unique_filename))]

\* the outcomes the attempts of one call can have
AttemptOutcomes == [S3NameSet -> 0..upload_retries]

\* a call that begins with the recovery probe: every backend with a client
\* that was unhealthy is healthy again
UploadedAndProbed(call) ==
    /\ s3_health' = [n \in S3NameSet |->
                        IF s3_health[n] THEN call.health[n]
                        ELSE n \in s3_clients]
    /\ last_s3_failure' = call.last
    /\ h_up' = Some(call)
    /\ UNCHANGED <<s3_clients, current_s3_index>>

\* the effect of the call on the handler
Uploaded(call) ==
    /\ s3_health' = call.health
    /\ last_s3_failure' = call.last
    /\ h_up' = Some(call)
    /\ UNCHANGED <<s3_clients, current_s3_index>>

\* ---- the broker connection
\* _test_broker_connectivity: a test producer can be constructed
TestBrokerConnectivity == broker_up

\* _get_next_healthy_broker, lines 163-177
GetNextHealthyBroker ==
    /\ kpc = "pick"
    /\ current_broker_index < MaxIndex
    /\ LET elapsed == ktime - last_broker_failure > broker_failover_timeout
           health == IF elapsed
                     THEN Reprobe(broker_health, TestBrokerConnectivity)
                     ELSE broker_health
           healthy_brokers == Healthy(Brokers, health)
       IN  /\ broker_health' = health
           /\ h_probed' = IF elapsed
                          THEN {b \in BrokerSet : ~broker_health[b]}
                          ELSE {}
           /\ IF healthy_brokers = <<>>
              THEN /\ k_broker' = None
                   /\ UNCHANGED current_broker_index
              ELSE /\ k_broker' =
                        Some(RoundRobin(healthy_brokers, current_broker_index))
                   /\ current_broker_index' = current_broker_index + 1
    /\ kpc' = "construct"
    /\ UNCHANGED h_failed
    /\ UNCHANGED <<notKafka, kafka_pipeline, last_broker_failure, s3Vars,
                   envVars, queueVars, k_ret, msgVars, loopVars, h_sent, h_pub, h_ok,
                   h_deq, h_s3call, h_up>>

\* where _create_kafka_producer returns to
AfterCreate(caller) ==
    CASE caller = "loop" -> "connected"
      [] caller = "events" -> "e_retry"
      [] caller = "analytics" -> "a_retry"
      [] caller = "errorlog" -> "g_retry"

\* _create_kafka_producer, lines 182-211, after the broker was chosen
CreateKafkaProducer ==
    /\ kpc = "construct"
    /\ IF k_broker = None
       THEN /\ kafka_pipeline' = None
            /\ UNCHANGED brokerVars
       ELSE IF broker_up[k_broker[1]]
       THEN /\ kafka_pipeline' = k_broker
            /\ UNCHANGED brokerVars
       ELSE /\ kafka_pipeline' = None
            /\ broker_health' = [broker_health EXCEPT ![k_broker[1]] = FALSE]
            /\ last_broker_failure' = ktime
            /\ UNCHANGED current_broker_index
    /\ k_broker' = None
    /\ k_ret' = "loop"
    /\ h_probed' = {}
    /\ h_failed' = None
    /\ kpc' = AfterCreate(k_ret)
    /\ UNCHANGED <<notKafka, s3Vars, envVars, queueVars, msgVars, loopVars,
               h_sent, h_pub, h_ok, h_deq, h_s3call, h_up>>

\* a failure handling that keeps the producer that failed
KeepProducer(caller) ==
    /\ h_failed' = kafka_pipeline
    /\ kafka_pipeline' = kafka_pipeline
    /\ kpc' = "pick"
    /\ k_ret' = caller

\* _handle_broker_failure, lines 215-223: the producer is closed and dropped,
\* then _create_kafka_producer is entered
HandleBrokerFailure(caller) ==
    /\ h_failed' = kafka_pipeline
    /\ kafka_pipeline' = None
    /\ kpc' = "pick"
    /\ k_ret' = caller

\* line 429: a pass over the two queues begins
BeginPass ==
    /\ kpc' = "events"
    /\ messages_processed' = 0
    /\ h_deq' = 0

\* lines 421-422 and 429: the head of the while loop
LoopTop ==
    /\ kpc = "top"
    /\ IF kafka_pipeline = None
       THEN /\ kpc' = "pick"
            /\ k_ret' = "loop"
            /\ UNCHANGED <<messages_processed, h_deq>>
       ELSE /\ BeginPass
            /\ UNCHANGED k_ret
    /\ sleep_time' = 0
    /\ h_s3call' = None
    /\ UNCHANGED <<notKafka, kafka_pipeline, brokerVars, s3Vars, envVars,
               queueVars, k_broker, msgVars, consecutive_empty_cycles,
               h_sent, h_pub, h_ok, h_probed, h_failed, h_up>>

\* lines 423-429: the loop looks at what _create_kafka_producer returned
LoopConnected ==
    /\ kpc = "connected"
    /\ IF kafka_pipeline = None
       THEN /\ sleep_time' = Tenths(NoBrokerSleepSeconds)
            /\ kpc' = "top"
            /\ UNCHANGED <<messages_processed, h_deq>>
       ELSE /\ sleep_time' = Tenths(ConnectedSleepSeconds)
            /\ BeginPass
    /\ UNCHANGED <<notKafka, kafka_pipeline, brokerVars, s3Vars, envVars,
                   queueVars, k_ret, k_broker, msgVars,
                   consecutive_empty_cycles, h_sent, h_pub, h_ok, h_probed, h_failed, h_s3call,
                   h_up>>

\* ---- process_events_queue
\* a call that goes on to the retry after a first send that succeeded
EventsReturnThenRetry(ok, dequeued) ==
    /\ messages_processed' = messages_processed + (IF ok THEN 1 ELSE 0)
    /\ h_ok' = Some([queue |-> "events", ok |-> ok, dequeued |-> dequeued])
    /\ IF ok /\ dequeued /\ h_sent = <<>>
       THEN /\ kpc' = "e_retry"
            /\ UNCHANGED msgVars
       ELSE /\ kpc' = "analytics"
            /\ k_msg' = None
            /\ k_img' = None
            /\ k_snap' = None
            /\ k_vid' = None

\* the call returns ok to the loop (lines 432-433)
EventsReturn(ok, dequeued) ==
    /\ messages_processed' = messages_processed + (IF ok THEN 1 ELSE 0)
    /\ h_ok' = Some([queue |-> "events", ok |-> ok, dequeued |-> dequeued])
    /\ kpc' = "analytics"
    /\ k_msg' = None
    /\ k_img' = None
    /\ k_snap' = None
    /\ k_vid' = None

\* lines 289 and 329-330: get_nowait, and True when the queue is empty
EventsGet ==
    /\ kpc = "events"
    /\ IF events_queue = <<>>
       THEN /\ EventsReturn(TRUE, FALSE)
            /\ h_sent' = <<>>
            /\ h_pub' = None
            /\ UNCHANGED <<events_queue, h_deq>>
       ELSE /\ \E message \in EventMessages : k_msg' = Some(message)
            /\ events_queue' = Tail(events_queue)
            /\ h_sent' = <<>>
            /\ h_pub' = None
            /\ h_deq' = h_deq + 1
            /\ kpc' = "up_img"
            /\ h_ok' = None
            /\ UNCHANGED <<k_img, k_snap, k_vid, messages_processed>>
    /\ sleep_time' = 0
    /\ UNCHANGED <<notKafka, kafka_pipeline, brokerVars, s3Vars, envVars,
               analytics_queue, k_ret, k_broker, consecutive_empty_cycles,
               h_probed, h_failed, h_s3call, h_up>>

\* lines 294-295: the upload of org_img
UploadImage ==
    /\ kpc = "up_img"
    /\ IF k_msg[1].org_img
       THEN \E uuid \in Uuids, first_ok \in AttemptOutcomes :
                LET call == UploadToS3("image", uuid, first_ok)
                IN  k_img' = call.result /\ Uploaded(call)
       ELSE k_img' = None /\ UNCHANGED <<s3Vars, h_up>>
    /\ kpc' = "up_snap"
    /\ UNCHANGED <<notKafka, kafka_pipeline, brokerVars, envVars, queueVars,
                   k_ret, k_broker, k_msg, k_snap, k_vid, loopVars, h_sent, h_pub,
                   h_ok, h_deq, h_probed, h_failed, h_s3call>>

\* lines 297-298: the upload of snap_shot
UploadSnapshot ==
    /\ kpc = "up_snap"
    /\ IF k_msg[1].snap_shot
       THEN \E uuid \in Uuids, first_ok \in AttemptOutcomes :
                LET call == UploadToS3("snapshot", uuid, first_ok)
                IN  k_snap' = call.result /\ Uploaded(call)
       ELSE k_snap' = None /\ UNCHANGED <<s3Vars, h_up>>
    /\ kpc' = "up_vid"
    /\ UNCHANGED <<notKafka, kafka_pipeline, brokerVars, envVars, queueVars,
                   k_ret, k_broker, k_msg, k_img, k_vid, loopVars, h_sent, h_pub,
                   h_ok, h_deq, h_probed, h_failed, h_s3call>>

\* lines 300-301: the upload of video
UploadVideo ==
    /\ kpc = "up_vid"
    /\ IF k_msg[1].video
       THEN \E uuid \in Uuids, first_ok \in AttemptOutcomes :
                LET call == UploadToS3("video", uuid, first_ok)
                IN  k_vid' = call.result /\ Uploaded(call)
       ELSE k_vid' = None /\ UNCHANGED <<s3Vars, h_up>>
    /\ kpc' = "e_send"
    /\ UNCHANGED <<notKafka, kafka_pipeline, brokerVars, envVars, queueVars,
                   k_ret, k_broker, k_msg, k_img, k_snap, loopVars, h_sent, h_pub,
                   h_ok, h_deq, h_probed, h_failed, h_s3call>>

\* a message that always names a video, uploaded or not
PublishedEventWithVideo ==
    [org_img |-> k_img[1], snap_shot |-> k_snap[1],
     video |-> Some(S3Url("primary", UniqueFilename("video", "u1")))]

\* lines 306-308: the message as it is handed to send; video is null (None)
\* when video_s3_url is
PublishedEvent ==
    [org_img |-> k_img[1], snap_shot |-> k_snap[1], video |-> k_vid]

\* lines 304-318: the first send of the event, and _handle_broker_failure
\* when it raises KafkaError
EventsSend ==
    /\ kpc = "e_send"
    /\ IF k_img /= None /\ k_snap /= None /\ kafka_pipeline /= None
       THEN \E sent \in BOOLEAN :
                /\ h_sent' = Append(h_sent, sent)
                /\ h_pub' = Some(PublishedEvent)
                /\ IF sent
                   THEN /\ EventsReturn(TRUE, TRUE)
                        /\ UNCHANGED <<h_failed, kafka_pipeline, k_ret>>
                   ELSE /\ HandleBrokerFailure("events")
                        /\ UNCHANGED <<msgVars, messages_processed, h_ok>>
       ELSE /\ EventsReturn(FALSE, TRUE)
            /\ UNCHANGED <<h_failed, kafka_pipeline, k_ret, h_sent, h_pub>>
    /\ h_up' = None
    /\ UNCHANGED <<notKafka, brokerVars, s3Vars, envVars, queueVars, k_broker,
               consecutive_empty_cycles, sleep_time, h_deq, h_probed,
               h_s3call>>

\* lines 319-327: the retry on the new producer, if there is one
EventsRetry ==
    /\ kpc = "e_retry"
    /\ IF kafka_pipeline /= None
       THEN \E sent \in BOOLEAN :
                /\ h_sent' = Append(h_sent, sent)
                /\ h_pub' = Some(PublishedEvent)
                /\ EventsReturn(sent, TRUE)
       ELSE /\ EventsReturn(FALSE, TRUE)
            /\ UNCHANGED <<h_sent, h_pub>>
    /\ h_up' = None
    /\ UNCHANGED <<notKafka, kafka_pipeline, brokerVars, s3Vars, envVars,
               queueVars, k_ret, k_broker, consecutive_empty_cycles,
               sleep_time, h_deq, h_probed, h_failed, h_s3call>>

\* ---- process_analytics_queue
\* the call returns ok to the loop (lines 435-436)
AnalyticsReturn(ok, dequeued) ==
    /\ messages_processed' = messages_processed + (IF ok THEN 1 ELSE 0)
    /\ h_ok' = Some([queue |-> "analytics", ok |-> ok, dequeued |-> dequeued])
    /\ kpc' = "sleep"
    /\ k_msg' = None

\* lines 338 and 360-361: get_nowait, and True when the queue is empty
AnalyticsGet ==
    /\ kpc = "analytics"
    /\ IF analytics_queue = <<>>
       THEN /\ AnalyticsReturn(TRUE, FALSE)
            /\ h_sent' = <<>>
            /\ h_pub' = None
            /\ UNCHANGED <<analytics_queue, h_deq>>
       ELSE /\ k_msg' = Some(Head(analytics_queue))
            /\ analytics_queue' = Tail(analytics_queue)
            /\ h_sent' = <<>>
            /\ h_pub' = None
            /\ h_deq' = h_deq + 1
            /\ kpc' = "a_send"
            /\ h_ok' = None
            /\ UNCHANGED messages_processed
    /\ UNCHANGED <<notKafka, kafka_pipeline, brokerVars, s3Vars, envVars,
                   events_queue, k_ret, k_broker, k_img, k_snap, k_vid,
                   consecutive_empty_cycles, sleep_time, h_probed, h_failed, h_s3call,
                   h_up>>

\* lines 342-349: the first send, and _handle_broker_failure when it raises
AnalyticsSend ==
    /\ kpc = "a_send"
    /\ IF kafka_pipeline /= None
       THEN \E sent \in BOOLEAN :
                /\ h_sent' = Append(h_sent, sent)
                /\ h_pub' = k_msg
                /\ IF sent
                   THEN /\ AnalyticsReturn(TRUE, TRUE)
                        /\ UNCHANGED <<h_failed, kafka_pipeline, k_ret>>
                   ELSE /\ HandleBrokerFailure("analytics")
                        /\ UNCHANGED <<k_msg, messages_processed, h_ok>>
       ELSE /\ AnalyticsReturn(FALSE, TRUE)
            /\ UNCHANGED <<h_failed, kafka_pipeline, k_ret, h_sent, h_pub>>
    /\ UNCHANGED <<notKafka, brokerVars, s3Vars, envVars, queueVars, k_broker,
                   k_img, k_snap, k_vid, consecutive_empty_cycles, sleep_time,
                   h_deq, h_probed, h_s3call, h_up>>

\* lines 350-358: the retry on the new producer, if there is one
AnalyticsRetry ==
    /\ kpc = "a_retry"
    /\ IF kafka_pipeline /= None
       THEN \E sent \in BOOLEAN :
                /\ h_sent' = Append(h_sent, sent)
                /\ h_pub' = k_msg
                /\ AnalyticsReturn(sent, TRUE)
       ELSE /\ AnalyticsReturn(FALSE, TRUE)
            /\ UNCHANGED <<h_sent, h_pub>>
    /\ UNCHANGED <<notKafka, kafka_pipeline, brokerVars, s3Vars, envVars,
                   queueVars, k_ret, k_broker, k_img, k_snap, k_vid,
                   consecutive_empty_cycles, sleep_time, h_deq, h_probed, h_failed,
                   h_s3call, h_up>>

\* line 440: min(2 * consecutive_empty_cycles, 10), in tenths of a second
BackoffSleep(cycles) ==
    Tenths(Min(BackoffStepSeconds * cycles, BackoffCapSeconds))

\* lines 438-444: the sleep that ends the pass
LoopSleep ==
    /\ kpc = "sleep"
    /\ IF messages_processed = 0
       THEN /\ consecutive_empty_cycles < MaxEmptyCycles
            /\ consecutive_empty_cycles' = consecutive_empty_cycles + 1
            /\ sleep_time' = BackoffSleep(consecutive_empty_cycles + 1)
       ELSE /\ consecutive_empty_cycles' = 0
            /\ sleep_time' = MinimalSleepTenths
    /\ kpc' = "top"
    /\ messages_processed' = 0
    /\ h_sent' = <<>>
    /\ h_pub' = None
    /\ h_ok' = None
    /\ h_deq' = 0
    /\ UNCHANGED <<notKafka, kafka_pipeline, brokerVars, s3Vars, envVars,
               queueVars, k_ret, k_broker, msgVars, h_probed, h_failed, h_s3call,
               h_up>>

\* ---- the storage tracker
\* _get_next_healthy_s3, lines 129-146, called between two passes of the loop;
\* test[n] is what _test_s3_connectivity(n) returns, False without a client
GetNextHealthyS3 ==
    /\ kpc = "top"
    /\ current_s3_index < MaxIndex
    /\ \E listing \in [S3NameSet -> BOOLEAN] :
         LET test == [n \in S3NameSet |-> n \in s3_clients /\ listing[n]]
             elapsed == ktime - last_s3_failure > s3_failover_timeout
             health == IF elapsed THEN Reprobe(s3_health, test) ELSE s3_health
             healthy_s3 == Healthy(S3Names, health)
             s3_name == IF healthy_s3 = <<>> THEN None
                        ELSE Some(RoundRobin(healthy_s3, current_s3_index))
         IN  /\ s3_health' = health
             /\ current_s3_index' =
                    current_s3_index + (IF s3_name = None THEN 0 ELSE 1)
             /\ h_s3call' = Some([returned |-> s3_name,
                                  healthy |-> healthy_s3,
                                  probed |-> IF elapsed
                                             THEN {n \in S3NameSet : ~s3_health[n]}
                                             ELSE {},
                                  passed |-> {n \in S3NameSet : test[n]}])
    /\ UNCHANGED <<notKafka, kafka_pipeline, brokerVars, s3_clients,
                   last_s3_failure, envVars, queueVars, kpc, k_ret, k_broker,
                   msgVars, loopVars, h_sent, h_pub, h_ok, h_deq, h_probed, h_failed, h_up>>

\* upload_to_s3 called on a handler that is between two passes of the loop
UploadCall ==
    /\ kpc = "top"
    /\ \E uuid \in Uuids, first_ok \in AttemptOutcomes :
           Uploaded(UploadToS3("image", uuid, first_ok))
    /\ h_s3call' = None
    /\ UNCHANGED <<notKafka, kafka_pipeline, brokerVars, envVars, queueVars,
                   kpc, k_ret, k_broker, msgVars, loopVars, h_sent, h_pub,
                   h_ok, h_deq, h_probed, h_failed>>

\* ---- send_error_log
\* send_error_log returns: how the call ended, and its locals die
ErrorLogReturns(how) ==
    /\ h_errlog' = [h_errlog EXCEPT !.call = how]
    /\ g_time' = 0
    /\ kpc' = "top"

\* lines 389-390 and 395-396: send returned, the message is with the producer
\* at ktime and last_error_time takes current_time
ErrorLogSent(current_time) ==
    /\ last_error_time' = current_time
    /\ h_errlog' = [n |-> h_errlog.n + 1, at |-> ktime, call |-> "sent"]
    /\ g_time' = 0
    /\ kpc' = "top"

\* lines 368-392: the rate test, the test of the producer, the first send,
\* and _handle_broker_failure when it raises KafkaError
SendErrorLog ==
    /\ kpc = "top"
    /\ LET current_time == ktime IN
       IF current_time - last_error_time < error_interval
       THEN /\ ErrorLogReturns("limited")
            /\ UNCHANGED <<h_failed, kafka_pipeline, k_ret, last_error_time>>
       ELSE IF kafka_pipeline = None
       THEN /\ ErrorLogReturns("noproducer")
            /\ UNCHANGED <<h_failed, kafka_pipeline, k_ret, last_error_time>>
       ELSE \E sent \in BOOLEAN :
                IF sent
                THEN /\ ErrorLogSent(current_time)
                     /\ UNCHANGED <<h_failed, kafka_pipeline, k_ret>>
                ELSE /\ HandleBrokerFailure("errorlog")
                     /\ g_time' = current_time
                     /\ h_errlog' = [h_errlog EXCEPT !.call = "failed"]
                     /\ UNCHANGED last_error_time
    /\ UNCHANGED <<notHandler, brokerVars, s3Vars, envVars, queueVars, k_broker,
                   msgVars, loopVars, h_sent, h_pub, h_ok, h_deq, h_probed,
                   h_s3call, h_up>>

\* lines 393-398: the retry on the new producer, if there is one
ErrorLogRetry ==
    /\ kpc = "g_retry"
    /\ IF kafka_pipeline /= None
       THEN \E sent \in BOOLEAN :
                IF sent
                THEN ErrorLogSent(g_time)
                ELSE /\ ErrorLogReturns("dropped")
                     /\ UNCHANGED last_error_time
       ELSE /\ ErrorLogReturns("dropped")
            /\ UNCHANGED last_error_time
    /\ UNCHANGED <<notHandler, kafka_pipeline, brokerVars, s3Vars, envVars,
                   queueVars, k_ret, k_broker, msgVars, loopVars, h_sent,
                   h_pub, h_ok, h_deq, h_probed, h_failed, h_s3call, h_up>>

\* time passes on the dispatcher host, in the steps of the error channel
ErrorTick ==
    /\ ktime + ErrorTickSeconds <= MaxErrorTime
    /\ ktime' = ktime + ErrorTickSeconds
    /\ UNCHANGED <<notKafka, kafka_pipeline, brokerVars, s3Vars, broker_up,
                   queueVars, kpc, k_ret, k_broker, msgVars, loopVars, h_sent,
                   h_pub, h_ok, h_deq, h_probed, h_failed, h_s3call, h_up>>

\* ---- the environment
\* a producer of events puts a message
PutEvent ==
    /\ Len(events_queue) < MaxQueue
    /\ events_queue' = Append(events_queue, "event")
    /\ UNCHANGED <<notKafka, kafka_pipeline, brokerVars, s3Vars, envVars,
                   analytics_queue, kpc, k_ret, k_broker, msgVars, loopVars,
                   h_sent, h_pub, h_ok, h_deq, h_probed, h_failed, h_s3call, h_up>>

\* a producer of analytics puts a message
PutAnalytics ==
    /\ Len(analytics_queue) < MaxQueue
    /\ \E message \in AnalyticsMessages :
         analytics_queue' = Append(analytics_queue, message)
    /\ UNCHANGED <<notKafka, kafka_pipeline, brokerVars, s3Vars, envVars,
                   events_queue, kpc, k_ret, k_broker, msgVars, loopVars,
                   h_sent, h_pub, h_ok, h_deq, h_probed, h_failed, h_s3call, h_up>>

\* a broker goes down or comes back
BrokerFlip ==
    /\ \E b \in BrokerSet : broker_up' = [broker_up EXCEPT ![b] = ~@]
    /\ UNCHANGED <<notKafka, kafka_pipeline, brokerVars, s3Vars, ktime,
                   queueVars, kpc, k_ret, k_broker, msgVars, loopVars, h_sent, h_pub,
                   h_ok, h_deq, h_probed, h_failed, h_s3call, h_up>>

\* time passes on the dispatcher host
KafkaTick ==
    /\ ktime + KafkaTickSeconds <= MaxKafkaTime
    /\ ktime' = ktime + KafkaTickSeconds
    /\ UNCHANGED <<notKafka, kafka_pipeline, brokerVars, s3Vars, broker_up,
                   queueVars, kpc, k_ret, k_broker, msgVars, loopVars, h_sent, h_pub,
                   h_ok, h_deq, h_probed, h_failed, h_s3call, h_up>>

\* ---- the handler after __init__ (lines 24-48), run_kafka_loop not yet in
\* its first pass
LoopAtRest ==
    /\ last_broker_failure = 0
    /\ broker_health = [b \in BrokerSet |-> TRUE]
    /\ current_s3_index = 0
    /\ last_s3_failure = 0
    /\ events_queue = <<>>
    /\ analytics_queue = <<>>
    /\ kpc = "top"
    /\ k_ret = "loop"
    /\ k_broker = None
    /\ k_msg = None
    /\ k_img = None
    /\ k_snap = None
    /\ k_vid = None
    /\ messages_processed = 0
    /\ consecutive_empty_cycles = 0
    /\ sleep_time = 0
    /\ h_sent = <<>>
    /\ h_pub = None
    /\ h_ok = None
    /\ h_deq = 0
    /\ h_probed = {}
    /\ h_failed = None
    /\ h_s3call = None
    /\ h_up = None
    /\ last_error_time = 0
    /\ g_time = 0
    /\ h_errlog = [n |-> 0, at |-> 0, call |-> "none"]

\* no producer yet (line 24), at KafkaStartTime
DispatcherAtRest ==
    /\ kafka_pipeline = None
    /\ current_broker_index = 0
    /\ ktime = KafkaStartTime
    /\ LoopAtRest

\* _setup_aws_s3, lines 89-101: a backend whose client could not be built has
\* no client and is unhealthy
KafkaInit ==
    /\ DispatcherAtRest
    /\ broker_up \in [BrokerSet -> BOOLEAN]
    /\ s3_clients \in {S3NameSet, {"primary"}}
    /\ s3_health = [n \in S3NameSet |-> n \in s3_clients]

KafkaIdle ==
    /\ DispatcherAtRest
    /\ broker_up = [b \in BrokerSet |-> TRUE]
    /\ s3_clients = S3NameSet
    /\ s3_health = [n \in S3NameSet |-> TRUE]

(***************************************************************************)
(* the specifications                                                      *)
(***************************************************************************)
DecodeIdle ==
    /\ frame = <<0, 0, 0, 0>>
    /\ decoded = None
    /\ dpc = "done"

\* the deques, the counter and previous_reading of the ingestion thread right
\* after construction (lines 19-23, 161), and after a first run of four
\* readings of 55 km/h at time 0 that no caller matched: the first went to
\* rank 1, the second and the fourth to rank 2, and the second was promoted
ColdStart ==
    /\ count_radar = 0
    /\ previous_reading = None
    /\ rank1_radar_speeds = <<>>
    /\ rank2_radar_speeds = <<>>
    /\ rank3_radar_speeds = <<>>

WarmStart ==
    /\ count_radar = 4
    /\ previous_reading = Some(55)
    /\ rank1_radar_speeds = << <<0, 55>> >>
    /\ rank2_radar_speeds = << <<0, 55>> >>
    /\ rank3_radar_speeds = << <<0, 55>> >>

\* the threads at rest: the ingestion thread at the head of its loop, no
\* caller in get_radar_data
ThreadsAtRest ==
    /\ now = 0
    /\ ser = TRUE
    /\ h_poll = "none"
    /\ radar_running = TRUE
    /\ cpc = "idle"
    /\ h_alive = 1
    /\ radar_lock = "free"
    /\ ipc = "loop"
    /\ i_speed = 0
    /\ i_time = 0
    /\ i_rank = 0
    /\ i_oldest = None
    /\ n_readings = 0
    /\ h_ins = None
    /\ mpc = "idle"
    /\ m_ai = 0
    /\ m_thr = 0
    /\ m_cls = "car"
    /\ m_calib = FALSE
    /\ m_rank = 0
    /\ m_mut = FALSE
    /\ m_best = None
    /\ m_res = Outcome("pending", 0)
    /\ h_exam = <<>>
    /\ h_matches = [c \in RegisteredClasses |-> 0]

\* the registered classes, calibrating or not, with no match counted yet
RadarInit ==
    /\ ColdStart \/ WarmStart
    /\ ThreadsAtRest
    /\ is_calibrating \in [RegisteredClasses -> BOOLEAN]
    /\ class_calibration_count = [c \in RegisteredClasses |-> 0]

RadarIdle ==
    /\ ColdStart
    /\ ThreadsAtRest
    /\ is_calibrating = [c \in RegisteredClasses |-> FALSE]
    /\ class_calibration_count = [c \in RegisteredClasses |-> 0]

vars == <<decodeVars, radarVars, kafkaVars>>

Init == RadarInit /\ DecodeIdle /\ KafkaIdle

Ingest ==
    \/ Poll
    \/ CleanupTruth
    \/ CleanupHead
    \/ CleanupPop
    \/ AddSpeedToRank
    \/ PromoteTest
    \/ PromotePop
    \/ PromoteAppend
    \/ TrimTest
    \/ TrimPop

Match ==
    \/ MatchCall
    \/ MatchAny
    \/ MatchIter
    \/ MatchFilter
    \/ MatchRemove

Next == Ingest \/ Match \/ Tick

Spec == Init /\ [][Next]_vars

\* a poll on a serial line that can fail: the reopen fails, the read raises,
\* the read is short, or 4 bytes arrive
PollLine == PollWith(PollOutcomes)

\* the ingestion thread alone on a serial line that can fail, as time passes
SerialNext == PollLine \/ Ingest \/ Tick

SerialSpec == Init /\ [][SerialNext]_vars

\* ---- start_radar and stop_radar, called one after the other by one caller
\* on an engine that init_radar has configured (radar_port is set) and
\* start_radar has started (radar_thread is set)
\* what the lifecycle leaves alone
notLife == <<decodeVars, kafkaVars, now, rankVars, calibVars, matchVars, m_mut,
             ser, count_radar, i_speed, i_time, i_rank, i_oldest, n_readings,
             h_ins, h_poll>>

\* start_radar, lines 49-52: a new thread begins _radar_read_loop (line 161)
\* and sleeps (line 162)
StartRadar ==
    /\ cpc = "idle"
    /\ IF ~radar_running
       THEN /\ radar_running' = TRUE
            /\ ipc' = "sleep"
            /\ previous_reading' = None
            /\ h_alive' = h_alive + 1
       ELSE UNCHANGED <<radar_running, ipc, previous_reading, h_alive>>
    /\ UNCHANGED <<notLife, cpc>>

\* line 162: time.sleep(1) returns
SleepEnds ==
    /\ ipc = "sleep"
    /\ ipc' = "loop"
    /\ UNCHANGED <<notLife, lifeVars, previous_reading>>

\* line 163: the while test fails and the thread ends
LoopExit ==
    /\ ipc = "loop"
    /\ ~radar_running
    /\ ipc' = "ended"
    /\ h_alive' = h_alive - 1
    /\ UNCHANGED <<notLife, radar_running, cpc, previous_reading>>

\* stop_radar, lines 59-60: the flag is cleared and join is entered
StopRadar ==
    /\ cpc = "idle"
    /\ radar_running' = FALSE
    /\ cpc' = "join"
    /\ UNCHANGED <<notLife, ipc, previous_reading, h_alive>>

\* a join that does not wait
JoinAnyTime == TRUE

\* Thread.join returns once the thread has ended
ThreadEnded == ipc = "ended"

\* line 61: join returns, and stop_radar with it
JoinReturns ==
    /\ cpc = "join"
    /\ ThreadEnded
    /\ cpc' = "idle"
    /\ UNCHANGED <<notLife, ipc, previous_reading, radar_running, h_alive>>

IngestionThread == Ingest \/ SleepEnds \/ LoopExit

LifecycleNext ==
    IngestionThread \/ StartRadar \/ StopRadar \/ JoinReturns \/ Tick

\* the ingestion thread keeps being scheduled, and join returns when it can
LifecycleSpec ==
    /\ Init
    /\ [][LifecycleNext]_vars
    /\ WF_vars(IngestionThread)
    /\ WF_vars(JoinReturns)

\* _process_speed_data applied to one frame
Decode ==
    /\ dpc = "ready"
    /\ decoded' = ProcessSpeedData(frame)
    /\ dpc' = "done"
    /\ UNCHANGED <<frame, radarVars, kafkaVars>>

\* bytes of the model: the markers, their neighbours and the ends of the range
MarkerBytes == {0, 250, 251, 252, 253, 255}
TailBytes == {0, 1, 255}

DecodeInit ==
    /\ frame \in MarkerBytes \X MarkerBytes \X Byte \X TailBytes
    /\ decoded = None
    /\ dpc = "ready"
    /\ RadarIdle
    /\ KafkaIdle

DecodeNext == Decode

DecodeSpec == DecodeInit /\ [][DecodeNext]_vars

Dispatch ==
    \/ LoopTop
    \/ GetNextHealthyBroker
    \/ CreateKafkaProducer
    \/ LoopConnected
    \/ EventsGet
    \/ UploadImage
    \/ UploadSnapshot
    \/ UploadVideo
    \/ EventsSend
    \/ EventsRetry
    \/ AnalyticsGet
    \/ AnalyticsSend
    \/ AnalyticsRetry
    \/ LoopSleep

Environment ==
    \/ PutEvent
    \/ PutAnalytics
    \/ BrokerFlip
    \/ KafkaTick

KafkaNext == Dispatch \/ Environment

KafkaSpecInit == KafkaInit /\ RadarIdle /\ DecodeIdle

KafkaSpec == KafkaSpecInit /\ [][KafkaNext]_vars

\* the trackers, call by call: the loop looks for a broker until it holds a
\* producer, and between two passes _get_next_healthy_s3 and upload_to_s3 are
\* called
TrackerNext ==
    \/ LoopTop
    \/ GetNextHealthyBroker
    \/ CreateKafkaProducer
    \/ LoopConnected
    \/ GetNextHealthyS3
    \/ UploadCall
    \/ BrokerFlip
    \/ KafkaTick

TrackerSpec == KafkaSpecInit /\ [][TrackerNext]_vars

\* the dispatcher while it looks for a broker, with a clock that never stops:
\* once ktime has reached MaxKafkaTime the epoch moves forward instead, and
\* the recorded failure times move back with it (a time that falls before
\* the epoch is kept at 0, which is as far in the past for every timeout)
Rebase(t) == IF t > KafkaTickSeconds THEN t - KafkaTickSeconds ELSE 0

LiveTick ==
    /\ IF ktime + KafkaTickSeconds <= MaxKafkaTime
       THEN /\ ktime' = ktime + KafkaTickSeconds
            /\ UNCHANGED <<last_broker_failure, last_s3_failure,
                           last_error_time>>
       ELSE /\ ktime' = ktime
            /\ last_broker_failure' = Rebase(last_broker_failure)
            /\ last_s3_failure' = Rebase(last_s3_failure)
            /\ last_error_time' = Rebase(last_error_time)
    /\ UNCHANGED <<notHandler, kafka_pipeline, current_broker_index,
                   broker_health, s3_clients, current_s3_index, s3_health,
                   broker_up, queueVars, kpc, k_ret, k_broker, msgVars,
                   loopVars, h_sent, h_pub, h_ok, h_deq, h_probed, h_failed,
                   h_s3call, h_up, g_time, h_errlog>>

\* lines 419-427: the loop until it holds a producer
LiveLoop ==
    \/ LoopTop
    \/ GetNextHealthyBroker
    \/ CreateKafkaProducer
    \/ LoopConnected

LiveNext == LiveLoop \/ BrokerFlip \/ LiveTick

\* the dispatcher thread keeps being scheduled and time.sleep returns
LiveSpec ==
    /\ KafkaSpecInit
    /\ [][LiveNext]_vars
    /\ WF_vars(LiveLoop)
    /\ WF_vars(LiveTick)

\* the error channel: send_error_log is called on a handler whose dispatcher
\* is between two passes over empty queues, connected to the first broker or
\* not connected
ErrorLogInit ==
    /\ LoopAtRest
    /\ ktime = ErrorStartTime
    /\ \/ kafka_pipeline = None /\ current_broker_index = 0
       \/ kafka_pipeline = Some(Brokers[1]) /\ current_broker_index = 1
    /\ broker_up \in [BrokerSet -> BOOLEAN]
    /\ s3_clients = S3NameSet
    /\ s3_health = [n \in S3NameSet |-> TRUE]
    /\ RadarIdle
    /\ DecodeIdle

ErrorLogNext ==
    \/ SendErrorLog
    \/ ErrorLogRetry
    \/ GetNextHealthyBroker
    \/ CreateKafkaProducer
    \/ ErrorTick
    \/ BrokerFlip

ErrorLogSpec == ErrorLogInit /\ [][ErrorLogNext]_vars

(***************************************************************************)
(* Properties                                                              *)
(***************************************************************************)
\* a step in which get_radar_data ends
MatchReturns == mpc /= "idle" /\ mpc' = "idle"

\* a step in which the ingestion thread finishes the reading it was adding
IngestStepEnds == ipc /= "loop" /\ ipc' = "loop"

\* an entry a match with this threshold may use
Eligible(e, threshold) == e[2] > threshold - 5

HasEligible(dq, threshold) == \E i \in 1..Len(dq) : Eligible(dq[i], threshold)

\* how many times the deque holds the entry
Occurrences(dq, e) == Cardinality({i \in 1..Len(dq) : dq[i] = e})

\* the deques the ending call has read, the one it is iterating included
ExaminedAtReturn ==
    IF mpc = "m_filter" /\ ~m_mut THEN Examined ELSE h_exam

\* C1: a 4-byte frame decodes to (3rd byte, Approaching, Primary Target)
\* exactly when it is FC FA m 00 with 0F <= m <= FA, to (3rd byte, Receding,
\* Leading Target) exactly when it is FB FD m 00 with m <= FA, and to None in
\* every other case.
C1_DecodeExact ==
    dpc = "done" =>
        LET m == frame[3]
            primary == frame[1] = 252 /\ frame[2] = 250 /\ frame[4] = 0
                       /\ 15 <= m /\ m <= 250
            leading == frame[1] = 251 /\ frame[2] = 253 /\ frame[4] = 0
                       /\ 0 <= m /\ m <= 250
        IN  /\ primary <=>
                 decoded = <<[speed |-> m, direction |-> "Approaching",
                              type |-> "Primary Target"]>>
            /\ leading <=>
                 decoded = <<[speed |-> m, direction |-> "Receding",
                              type |-> "Leading Target"]>>
            /\ (~primary /\ ~leading) <=> decoded = <<>>

\* C1 witness: the frame FC FA 32 00 was decoded to a reading of 50
C1_Witness ==
    /\ dpc = "done"
    /\ frame = <<252, 250, 50, 0>>
    /\ decoded /= <<>>
    /\ decoded[1].speed = 50

\* C2: when get_radar_data reads rank 1, no entry of rank 1 is older than
\* max_age. (The code prunes rank 1 only when it adds to it.)
C2_Rank1FreshAtRead ==
    (mpc = "m_filter" /\ m_rank = 1) =>
        \A i \in 1..Len(rank1_radar_speeds) :
            now - rank1_radar_speeds[i][1] <= max_age

\* C3: when an insertion leaves rank 2 with two entries or more, the
\* ingestion step ends with rank 3 holding exactly the entry that was the
\* oldest of rank 2, and rank 2 without it.
C3_PromotionMovesOldest ==
    [][(IngestStepEnds /\ h_ins /= None) =>
          /\ rank3_radar_speeds' = <<Head(h_ins[1])>>
          /\ Occurrences(rank2_radar_speeds', Head(h_ins[1]))
                < Occurrences(h_ins[1], Head(h_ins[1]))]_vars

\* C4: a class registered as calibrating with no match counted is still
\* calibrating after each of its first calibration_required matches, and no
\* longer after the next one.
C4_CalibrationEndsAfterRequiredPlusOne ==
    \A c \in RegisteredClasses :
        /\ (h_matches[c] >= 1 /\ h_matches[c] <= calibration_required)
              => is_calibrating[c]
        /\ h_matches[c] = calibration_required + 1 => ~is_calibrating[c]

\* C5: get_radar_data never returns a speed at or below threshold - 5; it
\* returns None when no deque it read held an entry above threshold - 5; and
\* with three empty deques it returns None and changes no deque and no
\* calibration state.
C5_NeverAtOrBelowMargin ==
    [][MatchReturns =>
          /\ m_res'.kind = "speed" =>
                /\ m_res'.val > m_thr - 5
                /\ \E j \in 1..Len(ExaminedAtReturn) :
                      \E i \in 1..Len(ExaminedAtReturn[j].seen) :
                          /\ Eligible(ExaminedAtReturn[j].seen[i], m_thr)
                          /\ ExaminedAtReturn[j].seen[i][2] = m_res'.val
          /\ ( /\ m_res'.kind /= "raise"
               /\ \A j \in 1..Len(ExaminedAtReturn) :
                     ~HasEligible(ExaminedAtReturn[j].seen, m_thr) )
                => m_res'.kind = "none"
          /\ ( /\ mpc = "m_any"
               /\ rank1_radar_speeds = <<>>
               /\ rank2_radar_speeds = <<>>
               /\ rank3_radar_speeds = <<>> )
                => /\ m_res'.kind = "none"
                   /\ UNCHANGED <<rankVars, calibVars>>]_vars

\* C5 witness: a call with threshold 40 has taken 55 from rank 2 after it
\* read an entry of 35, which is at threshold - 5, in rank 1
C5_Witness ==
    /\ mpc = "m_remove"
    /\ m_thr = 40
    /\ m_rank = 2
    /\ m_best = << <<0, 55>> >>
    /\ Len(h_exam) = 2
    /\ \E i \in 1..Len(h_exam[1].seen) : h_exam[1].seen[i][2] = 35

\* C6: outside calibration, get_radar_data reads rank 1, rank 2 and rank 3 in
\* that order up to the first that holds an entry above threshold - 5, and
\* returns the speed of an entry of that deque whose timestamp is the earliest
\* among its entries above threshold - 5, whatever the later deques hold and
\* whatever ai_speed is; it returns None only after it read all three.
C6_EarliestOfFirstEligibleRank ==
    [][(MatchReturns /\ ~m_calib /\ m_res'.kind /= "raise" /\ mpc /= "m_any") =>
          LET exam == ExaminedAtReturn
              n == Len(exam)
          IN  /\ n >= 1
              /\ \A j \in 1..n : exam[j].rank = j
              /\ \A j \in 1..(n-1) : ~HasEligible(exam[j].seen, m_thr)
              /\ IF HasEligible(exam[n].seen, m_thr)
                 THEN /\ m_res'.kind = "speed"
                      /\ \E i \in 1..Len(exam[n].seen) :
                            /\ Eligible(exam[n].seen[i], m_thr)
                            /\ m_res'.val = exam[n].seen[i][2]
                            /\ \A k \in 1..Len(exam[n].seen) :
                                  Eligible(exam[n].seen[k], m_thr)
                                     => exam[n].seen[i][1] <= exam[n].seen[k][1]
                 ELSE /\ n = 3
                      /\ m_res'.kind = "none"]_vars

\* C6 witness: a call outside calibration has chosen the earlier of two
\* usable entries of rank 1, of different speeds, while rank 2 holds a usable
\* entry that is not later than it
C6_Witness ==
    /\ mpc = "m_remove"
    /\ ~m_calib
    /\ m_rank = 1
    /\ Len(h_exam) = 1
    /\ \E i, k \in 1..Len(h_exam[1].seen) :
          /\ h_exam[1].seen[i] = m_best[1]
          /\ Eligible(h_exam[1].seen[k], m_thr)
          /\ h_exam[1].seen[k][1] > m_best[1][1]
          /\ h_exam[1].seen[k][2] /= m_best[1][2]
    /\ Contains(rank1_radar_speeds, m_best[1])
    /\ \E i \in 1..Len(rank2_radar_speeds) :
          /\ Eligible(rank2_radar_speeds[i], m_thr)
          /\ rank2_radar_speeds[i][1] <= m_best[1][1]

\* a step that is one _get_next_healthy_s3 call
S3CallStep ==
    /\ kpc = "top"
    /\ kpc' = "top"
    /\ h_s3call' /= None
    /\ UNCHANGED <<envVars, queueVars>>

BrokerTimeoutElapsed == ktime - last_broker_failure > broker_failover_timeout

S3TimeoutElapsed == ktime - last_s3_failure > s3_failover_timeout

\* C7: _get_next_healthy_broker and _get_next_healthy_s3 return only an
\* endpoint that is marked healthy when they return; a health flag goes from
\* false to true only in such a call made more than the failover timeout
\* after the last failure and in which the connectivity test of that endpoint
\* passed; before the timeout has elapsed an unhealthy endpoint is neither
\* tested nor returned.
C7_HealthyOnlyAfterTimeoutAndProbe ==
    [][/\ \A b \in BrokerSet :
             /\ (kpc = "pick" /\ k_broker' = <<b>>) => broker_health'[b]
             /\ (~broker_health[b] /\ broker_health'[b]) =>
                   /\ kpc = "pick"
                   /\ BrokerTimeoutElapsed
                   /\ b \in h_probed'
                   /\ broker_up[b]
             /\ (kpc = "pick" /\ ~broker_health[b] /\ ~BrokerTimeoutElapsed) =>
                   /\ b \notin h_probed'
                   /\ k_broker' /= <<b>>
       /\ \A n \in S3NameSet :
             /\ (S3CallStep /\ h_s3call'[1].returned = <<n>>) => s3_health'[n]
             /\ (~s3_health[n] /\ s3_health'[n]) =>
                   /\ S3CallStep
                   /\ S3TimeoutElapsed
                   /\ n \in h_s3call'[1].probed
                   /\ n \in h_s3call'[1].passed
             /\ (S3CallStep /\ ~s3_health[n] /\ ~S3TimeoutElapsed) =>
                   /\ n \notin h_s3call'[1].probed
                   /\ h_s3call'[1].returned /= <<n>>]_vars

\* C7 witness: a broker that was marked unhealthy has passed its test after
\* the timeout, and the call returns a broker
C7_Witness ==
    /\ kpc = "construct"
    /\ last_broker_failure > 0
    /\ \E b \in h_probed : broker_health[b]
    /\ k_broker /= None

\* a step that is one upload_to_s3 call
UploadStep == kpc \in {"up_img", "up_snap", "up_vid"} /\ h_up' /= None

\* C8: when every attempt of an upload against the primary backend fails and
\* an attempt against the secondary succeeds, the upload returns the
\* secondary's reference (for a video the URL made of the secondary's bucket
\* and region and of the key, for an image the key alone), the primary is
\* marked unhealthy with the time of the failure, and the secondary stays
\* healthy.
C8_FailoverReturnsSecondaryReference ==
    [][( /\ UploadStep
         /\ s3_health["primary"]
         /\ h_up'[1].attempts["primary"] = upload_retries
         /\ h_up'[1].won = <<"secondary">> ) =>
          /\ h_up'[1].result =
                IF h_up'[1].file_type = "video"
                THEN << <<"https://", "bucket-b", ".s3.", "region-b",
                          ".amazonaws.com/", h_up'[1].unique_filename>> >>
                ELSE << h_up'[1].unique_filename >>
          /\ ~s3_health'["primary"]
          /\ last_s3_failure' = ktime
          /\ s3_health'["secondary"]]_vars

\* C8 witness: the video of an event went to the secondary backend after
\* three failed attempts against the primary
C8_Witness ==
    /\ kpc = "e_send"
    /\ h_up /= None
    /\ h_up[1].file_type = "video"
    /\ h_up[1].attempts["primary"] = upload_retries
    /\ h_up[1].won = <<"secondary">>
    /\ k_vid = << <<"https://", "bucket-b", ".s3.", "region-b",
                    ".amazonaws.com/", h_up[1].unique_filename>> >>
    /\ ~s3_health["primary"]
    /\ last_s3_failure = ktime

\* a step in which process_events_queue or process_analytics_queue returns
\* for a message it took from its queue
ProcessReturns ==
    /\ kpc \in {"e_send", "e_retry", "a_send", "a_retry"}
    /\ kpc' \in {"analytics", "sleep"}

\* C9: a message taken from a queue is sent at most twice; when the first
\* send raises a transport error the producer is dropped, a new one is
\* requested and the send is retried once if there is one; the call reports
\* success exactly when one of the sends succeeded, and the message never
\* goes back to a queue.
C9_AtMostOneRetry ==
    [][/\ Len(h_sent') <= 2
       /\ ( /\ kpc \in {"e_send", "a_send"}
            /\ h_sent' = <<FALSE>> ) =>
             /\ kafka_pipeline' = None
             /\ kpc' = "pick"
       /\ (kpc \in {"e_retry", "a_retry"} /\ kpc' /= kpc) =>
             /\ h_sent = <<FALSE>>
             /\ Len(h_sent') = IF kafka_pipeline = None THEN 1 ELSE 2
       /\ ProcessReturns =>
             /\ h_ok' /= None
             /\ h_ok'[1].ok = (\E i \in 1..Len(h_sent') : h_sent'[i])
             /\ UNCHANGED queueVars]_vars

\* C9 witness: the first send of a message failed and its retry on the new
\* producer succeeded
C9_Witness ==
    /\ h_sent = <<FALSE, TRUE>>
    /\ h_ok /= None
    /\ h_ok[1].ok
    /\ kafka_pipeline /= None

\* C10: with a producer and nothing taken from either queue, the pass is the
\* next consecutive empty pass and sleeps min(2 * k, 10) seconds; a pass that
\* took a message resets the count to 0 and sleeps 0.1 s. (The code counts a
\* pass as empty only when both calls return False, and they return True on
\* an empty queue.)
C10_BackoffOnEmptyPasses ==
    [][(kpc = "sleep" /\ kpc' = "top" /\ kafka_pipeline /= None) =>
          IF h_deq = 0
          THEN /\ consecutive_empty_cycles' = consecutive_empty_cycles + 1
               /\ sleep_time' =
                     10 * (IF 2 * consecutive_empty_cycles' < 10
                           THEN 2 * consecutive_empty_cycles' ELSE 10)
          ELSE /\ consecutive_empty_cycles' = 0
               /\ sleep_time' = 1]_vars

\* a send of the current event is issued on the broker connection
EventSendIssued ==
    kpc \in {"e_send", "e_retry"} /\ Len(h_sent') > Len(h_sent)

\* process_events_queue leaves the uploads behind (line 304)
EventUploadsDone == kpc = "e_send" /\ kpc' /= "e_send"

\* C11: an event is handed to send only if the image upload and the snapshot
\* upload both returned a reference, and then with these references and with
\* a null video when the event has no video or its upload failed; with both
\* references and a connection the send is issued whatever the video upload
\* did; when a required upload failed nothing is sent for the event and the
\* call returns False.
C11_PublishNeedsImageAndSnapshot ==
    [][ /\ EventSendIssued =>
              /\ k_img /= None /\ k_snap /= None
              /\ h_pub' /= None
              /\ h_pub'[1].org_img = k_img[1]
              /\ h_pub'[1].snap_shot = k_snap[1]
              /\ h_pub'[1].video = k_vid
              /\ (~k_msg[1].video => h_pub'[1].video = None)
        /\ (EventUploadsDone /\ k_img /= None /\ k_snap /= None
                /\ kafka_pipeline /= None) => EventSendIssued
        /\ (EventUploadsDone /\ (k_img = None \/ k_snap = None)) =>
              /\ h_sent' = <<>> /\ h_pub' = None
              /\ UNCHANGED <<kafka_pipeline, brokerVars>>
              /\ h_ok' = Some([queue |-> "events", ok |-> FALSE,
                               dequeued |-> TRUE])
      ]_vars

\* an event was published with a null video, and the call returned True
C11_Witness ==
    /\ kpc = "analytics"
    /\ h_sent = <<TRUE>>
    /\ h_pub /= None /\ h_pub[1].video = None
    /\ h_ok = Some([queue |-> "events", ok |-> TRUE, dequeued |-> TRUE])

\* the ingestion thread takes a step
IngestionSteps == ingestVars' /= ingestVars

\* C12: while a match holds radar_lock and is between its filter and its
\* remove, no step of the ingestion thread changes a rank deque or
\* count_radar.
C12_IngestionExcludedDuringMatch ==
    [][ (radar_lock = "match" /\ mpc \in {"m_filter", "m_remove"}
            /\ IngestionSteps)
        => UNCHANGED <<rankVars, count_radar>> ]_vars

\* C13: a call of get_radar_data for a class without an entry in
\* is_calibrating ends in an error, whatever the rank deques hold, and changes
\* neither the deques nor the calibration maps.
C13_UnregisteredClassRaises ==
    [][ (MatchReturns /\ m_cls \notin DOMAIN is_calibrating)
        => /\ m_res'.kind = "raise"
           /\ UNCHANGED <<rankVars, calibVars>> ]_vars

\* send_error_log hands an error log to a producer
ErrorLogHanded == h_errlog'.n > h_errlog.n

\* C14: an error log is handed to a producer at least error_interval after
\* the previous one was; a call that performs no successful send leaves
\* last_error_time as it was.
C14_ErrorLogsIntervalApart ==
    [][ /\ (ErrorLogHanded /\ h_errlog.n > 0)
              => ktime - h_errlog.at >= error_interval
        /\ ~ErrorLogHanded => last_error_time' = last_error_time
      ]_vars

\* the retry of the current event fails too: the event is dropped
DroppedAfterTwoFailures ==
    /\ kpc = "e_retry"
    /\ kpc' /= kpc
    /\ h_sent' = <<FALSE, FALSE>>

\* C15: when the dispatcher drops an event whose two sends failed,
\* send_error_log has been called for it.
C15_DropIsReported ==
    [][ DroppedAfterTwoFailures => h_errlog'.call /= "none" ]_vars

\* a message leaves one of the two queues
Dequeued ==
    \/ Len(events_queue') < Len(events_queue)
    \/ Len(analytics_queue') < Len(analytics_queue)

\* C16: a message is taken from the events queue or the analytics queue only
\* while kafka_pipeline holds a producer.
C16_DequeueOnlyWhenConnected ==
    [][ Dequeued => kafka_pipeline /= None ]_vars

\* the sends of the current message that succeeded
Successes(sent) == Cardinality({i \in 1..Len(sent) : sent[i]})

\* process_events_queue returns to the loop
EventsCallReturns ==
    /\ kpc \in {"events", "up_img", "up_snap", "up_vid", "e_send", "e_retry"}
    /\ kpc' = "analytics"

\* C17: the events queue loses a message only by the get_nowait of
\* process_events_queue, which takes its head; no step of the dispatcher puts
\* a message into it; when the call returns the message and its references
\* are kept nowhere; and at most one send of the message succeeded.
C17_DequeuedEventIsGone ==
    [][ /\ Len(events_queue') < Len(events_queue)
              => /\ kpc = "events"
                 /\ events_queue' = Tail(events_queue)
        /\ kpc' /= kpc => Len(events_queue') <= Len(events_queue)
        /\ EventsCallReturns
              => /\ k_msg' = None /\ k_img' = None
                 /\ k_snap' = None /\ k_vid' = None
        /\ Successes(h_sent') <= 1
      ]_vars

\* an event was dequeued and dropped after its two sends failed: it is in
\* neither the queue nor the locals
C17_Witness ==
    /\ kpc = "analytics"
    /\ h_ok = Some([queue |-> "events", ok |-> FALSE, dequeued |-> TRUE])
    /\ h_sent = <<FALSE, FALSE>>
    /\ events_queue = <<>>
    /\ k_msg = None

\* the caller of get_radar_data takes a step
MatchSteps == matchVars' /= matchVars

\* C18: a call in calibration mode that does not raise reads rank 1 only; it
\* returns None when rank 1 held no entry above threshold - 5, whatever rank 2
\* and rank 3 hold; otherwise it returns the speed of an entry of rank 1 above
\* threshold - 5 whose distance to ai_speed is minimal among them, and rank 1
\* loses one occurrence of an entry with that speed and nothing else; no step
\* of a call in calibration mode changes rank 2 or rank 3.
C18_CalibrationUsesRank1Only ==
    [][ /\ (MatchReturns /\ m_calib /\ m_res'.kind /= "raise") =>
              LET exam == ExaminedAtReturn
                  seen == exam[1].seen
              IN  /\ Len(exam) = 1
                  /\ exam[1].rank = 1
                  /\ IF HasEligible(seen, m_thr)
                     THEN /\ m_res'.kind = "speed"
                          /\ \E i \in 1..Len(seen) :
                                /\ Eligible(seen[i], m_thr)
                                /\ m_res'.val = seen[i][2]
                                /\ \A k \in 1..Len(seen) :
                                      Eligible(seen[k], m_thr) =>
                                         Abs(seen[i][2] - m_ai)
                                            <= Abs(seen[k][2] - m_ai)
                                /\ Len(rank1_radar_speeds')
                                      = Len(rank1_radar_speeds) - 1
                                /\ Occurrences(rank1_radar_speeds', seen[i])
                                      = Occurrences(rank1_radar_speeds,
                                                    seen[i]) - 1
                     ELSE /\ m_res'.kind = "none"
                          /\ UNCHANGED rank1_radar_speeds
        /\ (MatchSteps /\ m_calib) =>
              UNCHANGED <<rank2_radar_speeds, rank3_radar_speeds>>
      ]_vars

\* C18 witness: a call in calibration mode has chosen from rank 1 the entry
\* nearest to ai_speed although an earlier usable entry of another speed was
\* there, while rank 2 holds a usable entry
C18_Witness ==
    /\ mpc = "m_remove"
    /\ m_calib
    /\ m_rank = 1
    /\ Len(h_exam) = 1
    /\ \E i, k \in 1..Len(h_exam[1].seen) :
          /\ h_exam[1].seen[i] = m_best[1]
          /\ Eligible(h_exam[1].seen[k], m_thr)
          /\ h_exam[1].seen[k][1] < m_best[1][1]
          /\ Abs(h_exam[1].seen[k][2] - m_ai) > Abs(m_best[1][2] - m_ai)
    /\ HasEligible(rank2_radar_speeds, m_thr)

\* the ingestion thread counts a decoded reading (lines 176-198)
ReadingCounted == ipc = "loop" /\ IngestionSteps

\* the counter and the route of the reading just counted
CountedAndRouted ==
    LET speed == previous_reading'[1]
        jump == /\ previous_reading /= None
                /\ Abs(speed - previous_reading[1]) > max_diff_rais
        base == IF jump THEN 0 ELSE count_radar
    IN  /\ previous_reading' /= None
        /\ IF speed = 0
           THEN /\ count_radar' = 0
                /\ ipc' = "loop"
           ELSE /\ count_radar' = base + 1
                /\ (count_radar' = 1) <=> (ipc' /= "loop" /\ i_rank' = 1)
                /\ (count_radar' % 2 = 0) <=> (ipc' /= "loop" /\ i_rank' = 2)
                /\ (count_radar' > 1 /\ count_radar' % 2 = 1) => ipc' = "loop"
                /\ ipc' /= "loop" => (i_speed' = speed /\ i_time' = now)
        /\ UNCHANGED rankVars

\* rank 1 and rank 2 grow only by the append of the reading routed to them
GrowsByRoutedReading ==
    /\ Len(rank1_radar_speeds') > Len(rank1_radar_speeds)
          => /\ i_rank = 1 /\ count_radar = 1
             /\ rank1_radar_speeds'
                   = Append(rank1_radar_speeds, <<i_time, i_speed>>)
    /\ Len(rank2_radar_speeds') > Len(rank2_radar_speeds)
          => /\ i_rank = 2 /\ count_radar % 2 = 0
             /\ rank2_radar_speeds'
                   = Append(rank2_radar_speeds, <<i_time, i_speed>>)

\* the ingestion step of a routed reading does not end before its append
RoutedReadingAppended ==
    IngestStepEnds => ipc \notin {"c_truth", "c_head", "c_pop"}

\* C19: a reading of speed 0 sets count_radar to 0 and a reading that differs
\* from the previous one by more than max_diff_rais restarts it; a non-zero
\* reading increments it; the reading is added to rank 1 exactly when the
\* incremented count is 1, to rank 2 exactly when it is even, and to no deque
\* otherwise.
C19_CountingRoutesReadings ==
    [][ /\ ReadingCounted => CountedAndRouted
        /\ GrowsByRoutedReading
        /\ RoutedReadingAppended ]_vars

MinusOne(before, after, e) ==
    \E i \in 1..Len(before) :
        /\ before[i] = e
        /\ after = SubSeq(before, 1, i - 1) \o SubSeq(before, i + 1, Len(before))

\* C21: the step of get_radar_data that returns a speed takes exactly one
\* entry, of that speed, out of exactly one rank deque and leaves the other
\* entries of that deque and the other two deques as they were; no other
\* step of a call changes a rank deque, so a call that returns None leaves
\* all three unchanged.
C21_MatchRemovesExactlyOne ==
    [][ /\ (MatchReturns /\ m_res'.kind = "speed") =>
              \E k \in 1..3 :
                 /\ \E i \in 1..Len(RankOf(k)) :
                       /\ RankOf(k)[i][2] = m_res'.val
                       /\ MinusOne(RankOf(k), RankOf(k)', RankOf(k)[i])
                 /\ \A j \in (1..3) \ {k} : RankOf(j)' = RankOf(j)
        /\ (MatchSteps /\ ~(MatchReturns /\ m_res'.kind = "speed")) =>
              UNCHANGED rankVars
      ]_vars

\* C21 witness: of two equal entries of rank 1, read at the same time with
\* the same speed, a match has returned one and the other is still there
C21_Witness ==
    /\ mpc = "idle"
    /\ m_res = Outcome("speed", 35)
    /\ now = 0
    /\ n_readings = 2
    /\ rank1_radar_speeds = << <<0, 35>> >>
    /\ rank2_radar_speeds = <<>>
    /\ rank3_radar_speeds = <<>>

\* the position of endpoint e in the sequence healthy
PositionIn(healthy, e) == CHOOSE i \in 1..Len(healthy) : healthy[i] = e

\* the endpoint that follows e in healthy, cyclically
FollowerOf(healthy, e) == healthy[(PositionIn(healthy, e) % Len(healthy)) + 1]

\* one call of a tracker: from index it returns the endpoint at index modulo
\* the number of healthy endpoints and leaves index + 1, or returns none and
\* leaves index
TrackerCall(healthy, index, returned, index_after) ==
    IF healthy = <<>>
    THEN returned = None /\ index_after = index
    ELSE /\ returned = Some(healthy[(index % Len(healthy)) + 1])
         /\ index_after = index + 1

\* C22: the round-robin index of a tracker grows by exactly 1 on every call
\* that returns an endpoint, is left alone by a call that returns none, and
\* no other step of the dispatcher (a failure, a recovery, an upload) changes
\* it; the storage tracker called twice in a row with the same healthy set
\* returns, the second time, the endpoint that follows the first one in
\* configured order, cyclically
C22_RoundRobinAdvancesByOne ==
    [][ /\ GetNextHealthyBroker =>
              TrackerCall(Healthy(Brokers, broker_health'),
                          current_broker_index, k_broker',
                          current_broker_index')
        /\ ~GetNextHealthyBroker => UNCHANGED current_broker_index
        /\ GetNextHealthyS3 =>
              /\ TrackerCall(Healthy(S3Names, s3_health'), current_s3_index,
                             h_s3call'[1].returned, current_s3_index')
              /\ ( /\ h_s3call /= None
                   /\ h_s3call[1].returned /= None
                   /\ h_s3call'[1].healthy = h_s3call[1].healthy ) =>
                     h_s3call'[1].returned =
                         Some(FollowerOf(h_s3call[1].healthy,
                                         h_s3call[1].returned[1]))
        /\ ~GetNextHealthyS3 => UNCHANGED current_s3_index
      ]_vars

\* two calls of the storage tracker in a row with both backends healthy: the
\* first returned the primary, the second the secondary
C22_Witness ==
    /\ kpc = "top"
    /\ current_s3_index = 2
    /\ s3_health = [n \in S3NameSet |-> TRUE]
    /\ h_s3call /= None
    /\ h_s3call[1].returned = Some("secondary")
    /\ current_broker_index = 2

\* the reconnect of a retry path selects its broker: _get_next_healthy_broker
\* called by _handle_broker_failure after a send on broker X failed
ReconnectSelects == GetNextHealthyBroker /\ h_failed /= None

\* C23: after a publish failure on the producer connected to broker X, the
\* broker the reconnect selects is not X whenever a broker other than X is
\* marked healthy when the selection is made.
C23_ReconnectLeavesFailedBroker ==
    [][ ( /\ ReconnectSelects
          /\ \E b \in BrokerSet \ {h_failed[1]} : broker_health'[b] )
        => k_broker' /= h_failed ]_vars

\* a step of the dispatcher in which upload_to_s3 is called and returns
UploadReturns ==
    /\ kpc \in {"up_img", "up_snap", "up_vid"}
    /\ kpc' /= kpc
    /\ h_up' /= None
    /\ h_up' /= h_up

\* the attempts of a call, summed over the backends in configured order
RECURSIVE TotalAttempts(_, _)
TotalAttempts(attempts, i) ==
    IF i > Len(S3Names) THEN 0
    ELSE attempts[S3Names[i]] + TotalAttempts(attempts, i + 1)

\* C24: one upload_to_s3 call makes no attempt against a backend that is
\* marked unhealthy, at most upload_retries attempts against any backend and
\* at most upload_retries times the number of backends in all; it attempts a
\* backend only after every backend configured before it was skipped or
\* exhausted, makes no attempt after a successful one, marks a backend
\* unhealthy only when upload_retries attempts against it failed in this
\* call, and returns None exactly when no attempt succeeded.
C24_UploadVisitsInOrder ==
    [][ UploadReturns =>
          LET call == h_up'[1] IN
          /\ \A i \in 1..Len(S3Names) :
                LET n == S3Names[i] IN
                /\ ~s3_health[n] => call.attempts[n] = 0
                /\ call.attempts[n] <= upload_retries
                /\ call.attempts[n] > 0 =>
                      \A j \in 1..(i - 1) :
                         /\ call.won /= Some(S3Names[j])
                         /\ ~s3_health[S3Names[j]]
                               \/ call.attempts[S3Names[j]] = upload_retries
                /\ call.won = Some(n) =>
                      /\ call.attempts[n] >= 1
                      /\ s3_health'[n]
                      /\ \A j \in (i + 1)..Len(S3Names) :
                            call.attempts[S3Names[j]] = 0
                /\ (s3_health[n] /\ ~s3_health'[n]) =>
                      /\ call.attempts[n] = upload_retries
                      /\ call.won /= Some(n)
                /\ (s3_health[n] /\ call.won /= Some(n)
                    /\ call.attempts[n] = upload_retries) => ~s3_health'[n]
          /\ (call.result = None) <=> (call.won = None)
          /\ TotalAttempts(call.attempts, 1) <= upload_retries * Len(S3Names)
      ]_vars

\* an upload in which the primary backend was exhausted and the secondary
\* took the file at its second attempt
C24_Witness ==
    /\ h_up /= None
    /\ h_up[1].attempts = [n \in S3NameSet |->
                              IF n = "primary" THEN upload_retries ELSE 2]
    /\ h_up[1].won = Some("secondary")
    /\ ~s3_health["primary"]
    /\ s3_health["secondary"]

\* the index has reached the end of what the model follows
IndexExhausted == current_broker_index >= MaxIndex

\* C25: the loop does not stop when no broker is available: after a failed
\* connect it comes back to _create_kafka_producer; and whenever a broker b
\* stays reachable from some point on, the dispatcher holds a producer at
\* some later point, whatever the health flags were (as long as the index is
\* followed): always eventually b is down, or a producer is held.
C25_EventuallyConnected ==
    /\ (kpc = "connected" /\ kafka_pipeline = None) ~> (kpc = "pick")
    /\ \A b \in BrokerSet :
          []<>(~broker_up[b] \/ kafka_pipeline /= None \/ IndexExhausted)

\* the first two connects failed and left both brokers marked unhealthy; the
\* third call, after the timeout, restored broker1 and connected to it
C25_Witness ==
    /\ kafka_pipeline = Some("broker1")
    /\ current_broker_index = 3
    /\ broker_health = [b \in BrokerSet |-> b = "broker1"]
    /\ kpc = "connected"

\* one poll that meets outcome o on the serial line
PollMeets(kind) == PollWith({o \in PollOutcomes : o.kind = kind})

\* no reading came out of the poll: the thread is back at the head of its
\* loop and the counters and the deques are as they were
NoReading ==
    /\ ipc' = "loop"
    /\ UNCHANGED <<count_radar, previous_reading, n_readings, rankVars>>

\* C26: a poll never takes the ingestion thread out of its loop. A short read
\* gives no reading and leaves an open handle; a read error gives no reading
\* and leaves the handle absent; the reopen is tried only when the handle is
\* absent, and when it fails there is no reading and the handle is still
\* absent, so that the next poll begins with the reopen again. The counters
\* and the deques are unchanged in the three cases.
C26_PollNeverRaises ==
    [][ /\ PollLine => ipc' \in {"loop", "c_truth"}
        /\ PollMeets("short") => (NoReading /\ ser')
        /\ PollMeets("read_error") => (NoReading /\ ~ser')
        /\ PollMeets("reopen_fail") => (~ser /\ NoReading /\ ~ser')
      ]_vars

\* after two counted readings a read failed: the handle is absent, the
\* counter and the deques are kept
C26_Witness ==
    /\ ~ser
    /\ h_poll = "read_error"
    /\ ipc = "loop"
    /\ count_radar = 2
    /\ rank1_radar_speeds /= <<>>
    /\ rank2_radar_speeds /= <<>>

\* stop_radar has returned and start_radar was not called since
Stopped == ~radar_running /\ cpc = "idle"

\* C27: once stop_radar has cleared the flag, the ingestion thread at the head
\* of its loop can only end, and it does end; stop_radar returns only when the
\* thread has ended, and it does return; while the engine is stopped no step
\* changes a deque or the counter; and there is never more than one ingestion
\* thread, whatever start_radar is called on.
C27_StopEndsIngestion ==
    /\ [][ /\ (ipc = "loop" /\ ~radar_running /\ ipc' /= ipc) => ipc' = "ended"
           /\ (cpc = "join" /\ cpc' = "idle") => ipc = "ended"
           /\ Stopped => UNCHANGED <<rankVars, count_radar>>
           /\ Stopped' => ipc' = "ended"
           /\ h_alive' <= 1
         ]_vars
    /\ (cpc = "join") ~> (cpc = "idle" /\ ipc = "ended")

\* stop_radar has returned on an engine that had counted two readings: the
\* thread has ended and the deques hold what it left
C27_Witness ==
    /\ Stopped
    /\ ipc = "ended"
    /\ h_alive = 0
    /\ n_readings = 2
    /\ rank2_radar_speeds /= <<>>

\* every storage backend is marked unhealthy
NoHealthyS3 == \A n \in S3NameSet : ~s3_health[n]

\* C28: under the dispatcher no storage backend goes from unhealthy to
\* healthy. Once every backend is unhealthy, an upload makes no attempt and
\* returns None, the image reference of an event dequeued from then on is
\* None, and an event without image reference leaves process_events_queue
\* with no send, with False, and without going back to the queue.
C28_StorageNeverRecovers ==
    [][ /\ \A n \in S3NameSet : ~s3_health[n] => ~s3_health'[n]
        /\ (UploadReturns /\ NoHealthyS3) =>
              /\ h_up'[1].result = None
              /\ \A n \in S3NameSet : h_up'[1].attempts[n] = 0
        /\ (kpc = "up_img" /\ kpc' /= kpc /\ NoHealthyS3) => k_img' = None
        /\ (kpc = "e_send" /\ kpc' /= kpc /\ k_img = None) =>
              /\ h_sent' = <<>>
              /\ h_pub' = None
              /\ h_ok' = Some([queue |-> "events", ok |-> FALSE,
                               dequeued |-> TRUE])
              /\ events_queue' = events_queue
      ]_vars

\* both backends had a client and were marked unhealthy by failed uploads; an
\* event dequeued afterwards made no attempt and was dropped
C28_Witness ==
    /\ s3_clients = S3NameSet
    /\ NoHealthyS3
    /\ kpc = "analytics"
    /\ h_ok = Some([queue |-> "events", ok |-> FALSE, dequeued |-> TRUE])
    /\ h_sent = <<>>
    /\ events_queue = <<>>
    /\ kafka_pipeline /= None

====
